---- MODULE Spec2Model ----
(***************************************************************************)
(* A state-machine model of voxplorer's visualiser page: the session       *)
(* stores and the Dash callbacks that read and write them                  *)
(* (pages/visualiser.py, pages/layouts/visualiser/*.py), the reduction     *)
(* pipeline helpers and the feature-extraction engine                      *)
(* (lib/feature_extraction.py).                                            *)
(*                                                                         *)
(* Python values are encoded as follows.  An optional value is a sequence  *)
(* of length 0 (None) or 1 (the value), so that None and the empty list    *)
(* stay distinct.  A list is a sequence.  A table (list of row dicts) is   *)
(* a record [cols, num, rows]: the column names in order, the set of       *)
(* columns with a numeric dtype, and one value tuple per row.              *)
(***************************************************************************)
EXTENDS Integers, Sequences, FiniteSets, TLC

VARIABLES
    \* ---- dcc.Store components of the visualiser page
    stored_table,                 \* "stored-table".data
    stored_metainformation,       \* "stored-metainformation".data
    stored_reduced_data,          \* "stored-reduced-data".data
    selected_observations,        \* "selected-observations".data
    stored_data_table,            \* "stored-data-table".data (temporary)
    stored_data_audio,            \* "stored-data-audio".data (temporary)
    stored_metainformation_audio, \* "stored-metainformation-audio".data
    \* ---- components
    meta_checklist,               \* "meta-columns-checklist".value
    table_data,                   \* "interactive-table".data, None while no table is built
    table_selected_rows,          \* "interactive-table".selected_rows
    figure,                       \* "plot".figure
    plot_layout_style,            \* "plot-layout".style.display
    \* ---- the UI event queue and the outcome of the last callback
    pending,                      \* callbacks triggered and not yet run
    last,                         \* what the last callback did
    \* ---- one parameter walk of run_dim_reduction (plot_layout.py 361-380):
    \* the form it reads and the walk's locals, None while none is under way
    pw,
    \* ---- one FeatureExtractor object (lib/feature_extraction.py): the
    \* constructor's arguments and the object's progress, None while there is none
    fe,
    \* ---- one FeatureExtractor.extract_metadata call and what it returned
    md,
    \* ---- one FeatureExtractor.add_feature_labels call and what it returned
    fl,
    \* ---- one _reconstruct_reduced_data call (plot_layout.py 85-111): the
    \* arguments and the result, None while none is under way
    rr,
    \* ---- one FeatureExtractor._load_audio call and what it returned
    la,
    \* ---- one parse_table_contents or parse_audio_contents call
    \* (lib/data_loader.py) and how it ended
    pc,
    \* ---- one click on a download-selected button (table_preview.py, plot_layout.py)
    \* and what the callback returned
    dl,
    \* ---- the three delayed-refresh containers and their dcc.Interval
    \* components (dimensionality_reduction_opts.py, audio_upload/feature_extraction_opts.py)
    iv,
    \* ---- the dimensionality-reduction options panel and the stores it reads
    dp,
    \* ---- one _process_opts call (audio_upload.py, feature_extraction_opts.py) and its position
    po

vars == <<stored_table, stored_metainformation, stored_reduced_data,
          selected_observations, stored_data_table, stored_data_audio,
          stored_metainformation_audio, meta_checklist, table_data,
          table_selected_rows, figure, plot_layout_style, pending, last,
          pw, fe, md, fl, rr, la, pc, dl, iv, dp, po>>

sessionVars == <<stored_table, stored_metainformation, stored_reduced_data,
          selected_observations, stored_data_table, stored_data_audio,
          stored_metainformation_audio, meta_checklist, table_data,
          table_selected_rows, figure, plot_layout_style, pending, last>>

-----------------------------------------------------------------------------
\* the variables the session's callbacks do not touch
other == <<pw, fe, md, fl, rr, la, pc, dl, iv, dp, po>>

(* Bounds of the model *)

MaxRows == 2          \* rows of an uploaded table
MaxPoints == 1        \* rows or points picked in one selection event
MaxMeta == 1          \* columns ticked in the metadata checklist

-----------------------------------------------------------------------------
(* Python values *)

None == <<>>
Some(v) == <<v>>
IsNone(x) == x = <<>>
Val(x) == x[1]

\* Python truthiness of an optional list: None and [] are falsy
TruthyList(x) == ~IsNone(x) /\ Val(x) # <<>>

\* Python truthiness of an optional table (list of dicts)
TruthyTable(x) == ~IsNone(x) /\ Val(x).rows # <<>>

Range(s) == {s[i] : i \in DOMAIN s}

\* [e for e in s if P(e)]
RECURSIVE SelectIdx(_, _)
SelectIdx(n, keep) ==
    IF n = 0 THEN <<>>
    ELSE IF (n - 1) \in keep THEN Append(SelectIdx(n - 1, keep), n - 1)
         ELSE SelectIdx(n - 1, keep)

\* sequences without repetition over a finite set
RECURSIVE Arrangements(_)
Arrangements(S) ==
    {<<>>} \cup UNION {{<<x>> \o t : t \in Arrangements(S \ {x})} : x \in S}

-----------------------------------------------------------------------------
(* Reduction parameter schema: arg_opts                                     *)

Algorithms == {"pca", "umap", "tsne", "mds"}

\* options of "num-dimensions" (dimensionality_reduction_opts.py 339-343)
Dimensions == {2, 3}

\* arg_opts[algorithm]["params"], in declaration (dict) order
ParamOrder(a) ==
    CASE a = "pca"  -> <<"svd_solver", "tol", "random_state">>
      [] a = "umap" -> <<"n_neighbors", "min_dist", "metric", "random_state">>
      [] a = "tsne" -> <<"perplexity", "learning_rate", "max_iter", "init",
                         "random_state">>
      [] a = "mds"  -> <<"metric", "n_init", "max_iter", "random_state">>

\* "custom-options" in arg_opts[algorithm]["params"][param]
HasCustomOptions(a, p) == a = "tsne" /\ p = "learning_rate"

\* specs["default"]; numbers are kept as the text the form field holds
ParamDefault(a, p) ==
    CASE p = "svd_solver"    -> "auto"
      [] p = "tol"           -> "0.0"
      [] p = "random_state"  -> "42"
      [] p = "n_neighbors"   -> "15"
      [] p = "min_dist"      -> "0.1"
      [] p = "metric"        -> IF a = "umap" THEN "euclidean" ELSE "True"
      [] p = "perplexity"    -> "30.0"
      [] p = "learning_rate" -> "auto"
      [] p = "max_iter"      -> IF a = "tsne" THEN "1000" ELSE "300"
      [] p = "init"          -> "pca"
      [] p = "n_init"        -> "4"

\* values a user can leave in a primary field (the default and one other)
ParamChoices(a, p) ==
    CASE p = "learning_rate" -> {"auto", "custom"}
      [] p = "tol"           -> {"0.0", "0.5"}
      [] OTHER               -> {ParamDefault(a, p)}

\* values a user can leave in a "-custom" companion field
\* (specs["custom-options"]["default"] is 300.0)
CustomChoices == {"300.0", "450.0"}

\* A form field id f"{algorithm}-{param}" or f"{algorithm}-{param}-custom" is
\* kept as the list of its "-" separated parts, which is what
\* id.split("-") returns (no algorithm or parameter name holds a "-").
RECURSIVE FormFieldsFrom(_, _)
FormFieldsFrom(a, ps) ==
    IF ps = <<>> THEN <<>>
    ELSE LET p == Head(ps)
             own == IF HasCustomOptions(a, p)
                    THEN << <<a, p>>, <<a, p, "custom">> >>
                    ELSE << <<a, p>> >>
         IN own \o FormFieldsFrom(a, Tail(ps))

\* create_algorithm_params_form(algorithm): the "dim-red-param" fields in
\* layout order
create_algorithm_params_form(a) == FormFieldsFrom(a, ParamOrder(a))

\* The children of "algorithm-parameters": the form of an algorithm, or the
\* "Loading..." placeholder, which holds no field
FormStates == Algorithms \cup {"loading"}
FormFields(f) == IF f = "loading" THEN <<>> ELSE create_algorithm_params_form(f)

\* every value list the fields of a form can hold
RECURSIVE FieldValues(_)
FieldValues(fields) ==
    IF fields = <<>> THEN {<<>>}
    ELSE LET fld == Head(fields)
             dom == IF Len(fld) = 3 THEN CustomChoices
                    ELSE ParamChoices(fld[1], fld[2])
         IN {<<v>> \o t : v \in dom, t \in FieldValues(Tail(fields))}

-----------------------------------------------------------------------------
(* run_dim_reduction, parameter parsing (plot_layout.py lines 347-392)      *)

\* One turn of the while loop at position st.i (0-based).  st.err holds the
\* name of the exception that ended the walk, or "" while none was raised.
WalkStepMutAdvance(a, fields, values, st) ==
    LET i    == st.i
        fld  == fields[i + 1]
        name == fld[2]
    IN  IF Len(fld) # 2 THEN [st EXCEPT !.err = "ValueError"]
        ELSE IF name \notin Range(ParamOrder(a)) THEN [st EXCEPT !.err = "KeyError"]
        ELSE IF HasCustomOptions(a, name) /\ values[i + 1] = "custom"
        THEN IF i + 2 > Len(values) THEN [st EXCEPT !.err = "IndexError"]
             ELSE [st EXCEPT !.kwargs = (name :> values[i + 2]) @@ @, !.i = i + 2]
        ELSE [st EXCEPT !.kwargs = (name :> values[i + 1]) @@ @, !.i = i + 1]

WalkStep(a, fields, values, st) ==
    LET i    == st.i
        fld  == fields[i + 1]
        \* _, param_name = input_params[i]["id"]["id"].split("-")
        name == fld[2]
    IN  IF Len(fld) # 2 THEN [st EXCEPT !.err = "ValueError"]
        \* algo_opts[param_name]
        ELSE IF name \notin Range(ParamOrder(a)) THEN [st EXCEPT !.err = "KeyError"]
        ELSE IF HasCustomOptions(a, name)
        THEN IF values[i + 1] = "custom"
             THEN IF i + 2 > Len(values) THEN [st EXCEPT !.err = "IndexError"]
                  ELSE [st EXCEPT !.kwargs = (name :> values[i + 2]) @@ @,
                                  !.i = i + 2]
             ELSE [st EXCEPT !.kwargs = (name :> values[i + 1]) @@ @, !.i = i + 2]
        ELSE [st EXCEPT !.kwargs = (name :> values[i + 1]) @@ @, !.i = i + 1]

\* parsed_kwargs = {}; parsed_kwargs["n_components"] = n_components; i = 0
WalkStart(n_components) ==
    [i |-> 0, kwargs |-> ("n_components" :> n_components), err |-> ""]

\* the whole while loop
RECURSIVE WalkFrom(_, _, _, _)
WalkFrom(a, fields, values, st) ==
    IF st.err # "" \/ st.i >= Len(fields) THEN st
    ELSE WalkFrom(a, fields, values, WalkStep(a, fields, values, st))

ResolveParams(a, n_components, fields, values) ==
    WalkFrom(a, fields, values, WalkStart(n_components))

-----------------------------------------------------------------------------
(* Tables                                                                   *)

\* An uploaded table: columns f1 (numeric) and speaker (text); row i holds
\* one of two contents in turn, so a table of three rows holds two equal rows
UploadCols == <<"f1", "speaker">>
UploadNumeric == {"f1"}
RowPool == {<<1, "a">>, <<2, "b">>}
UploadRow(i) == IF i % 2 = 1 THEN <<1, "a">> ELSE <<2, "b">>

UploadTables ==
    {[cols |-> UploadCols, num |-> UploadNumeric,
      rows |-> [i \in 1..n |-> UploadRow(i)]] : n \in {1, MaxRows}}

NRows(t) == Len(t.rows)
ColIdx(cols, c) == CHOOSE i \in DOMAIN cols : cols[i] = c

\* [c for c in s if c in keep]
RECURSIVE FilterSeq(_, _)
FilterSeq(s, keep) ==
    IF s = <<>> THEN <<>>
    ELSE IF Head(s) \in keep THEN <<Head(s)>> \o FilterSeq(Tail(s), keep)
         ELSE FilterSeq(Tail(s), keep)

-----------------------------------------------------------------------------
(* Reduction pipeline helpers (plot_layout.py)                              *)

\* _prep_data_dim_red: the feature matrix X, kept as its row count and its
\* column names
prep_data_dim_red(data, metavars) ==
    LET feats == IF IsNone(metavars) \/ Val(metavars) = <<>>
                 THEN FilterSeq(data.cols, data.num \ {"index"})
                 ELSE FilterSeq(data.cols,
                                data.num \ (Range(Val(metavars)) \cup {"index"}))
    IN [n |-> NRows(data), feats |-> feats]

\* The reduction algorithms are external (sklearn, umap).  A call either
\* raises or returns a matrix with n_components columns and `m` rows, row i
\* being the embedding of row i of X; entry (i, j) is kept as <<i, j>>.
\* Every algorithm rejects a matrix without rows or without columns; PCA
\* rejects n_components > min(n_samples, n_features).
AlgorithmMustFail(a, X, k) ==
    \/ X.n = 0 \/ Len(X.feats) = 0
    \/ a = "pca" /\ (k > X.n \/ k > Len(X.feats))

ReducedMatrix(m, k) == [n |-> m, k |-> k]

\* reduced_cols = [f"DIM{i + 1}" for i in range(reduced_X.shape[1])]
ReducedCols(k) == [j \in 1..k |-> "DIM" \o ToString(j)]

\* _reconstruct_reduced_data.  err is the exception raised, "" if none.
reconstruct_reduced_data(reduced_X, data, metavars) ==
    LET bound == TruthyList(metavars)
                 /\ \E c \in Range(Val(metavars)) : c \in Range(data.cols)
        \* meta_cols = [col for col in metavars if col in df_original.columns]
        meta_cols == FilterSeq(Val(metavars), Range(data.cols))
        out_rows == [i \in 1..NRows(data) |->
                        [c \in 1..Len(meta_cols) |->
                            data.rows[i][ColIdx(data.cols, meta_cols[c])]]
                        \o [j \in 1..reduced_X.k |-> <<i, j>>]]
    IN  \* meta_cols is assigned only inside the if of line 101
        IF ~bound THEN [err |-> "UnboundLocalError", table |-> <<>>]
        \* df_meta.hstack(df_reduced) needs frames of equal height
        ELSE IF reduced_X.n # NRows(data) THEN [err |-> "ShapeError", table |-> <<>>]
        ELSE [err |-> "",
              table |-> [cols |-> meta_cols \o ReducedCols(reduced_X.k),
                         num |-> (data.num \cap Range(meta_cols))
                                 \cup Range(ReducedCols(reduced_X.k)),
                         rows |-> out_rows]]

-----------------------------------------------------------------------------
(* lib/plotting.py                                                          *)

\* scatter_2d(df, x, y, width, height, **kwargs) and scatter_3d(df, x, y, z,
\* ...): `df` is a required parameter, so a call that does not pass it
\* raises TypeError before px.scatter is reached.  kw is the set of keyword
\* names of the call.
scatter(kw) ==
    IF "df" \notin kw THEN [err |-> "TypeError", fig |-> None]
    ELSE [err |-> "", fig |-> Some([dragmode |-> "zoom", selections |-> None])]

\* the keyword names sync_selected_data passes (visualiser.py 362-373)
SyncScatterKw == {"data", "x", "y", "color", "symbol", "selections",
                  "hover_data", "color_discrete_sequence", "template", "title"}

\* the keyword names plot_update passes (plot_layout.py 591-600)
PlotScatterKw == {"data", "x", "y", "color", "symbol",
                  "color_discrete_sequence", "template", "title"}

-----------------------------------------------------------------------------
(* The session: stores, components, callbacks                               *)

\* A pending callback invocation: the callback, the id that triggered it
\* (ctx.triggered[0]["prop_id"].split(".")[0]) and the value of the
\* triggering input where the callback reads one.
Invocation(cb, trig, arg) == [cb |-> cb, trig |-> trig, arg |-> arg]

\* What the last callback did.  outcome is "update" (it returned, its outputs
\* were written), "prevent" (PreventUpdate) or "error" (it raised, nothing
\* was written); stage names the exception or the failed stage, "" if none.
Outcome(cb, trig, outcome, computed, stage) ==
    [cb |-> cb, trig |-> trig, outcome |-> outcome, stage |-> stage]

SelectionCallbacks == {"table_selected_data", "sync_selected_data"}

\* points of a plot selection event: customdata[0] of a point, or a point
\* that carries no customdata
PlotPoints == {[cd |-> Some(r)] : r \in 0..(MaxRows - 1)} \cup {[cd |-> None]}
PlotSelections ==
    {None} \cup {Some(p) : p \in {q \in Arrangements(PlotPoints) : Len(q) <= MaxPoints}}

\* lists the checklist can hold: its options are the columns of the uploaded
\* table; the user ticks categorical/text columns, as the card asks
ChecklistValues(t) ==
    {v \in Arrangements((Range(t.cols) \ {"index"}) \ t.num) : Len(v) <= MaxMeta}

\* derived_virtual_data: the rows a native filter keeps (a filter reads cell
\* values, so equal rows are kept or dropped together)
FilteredViews(t) ==
    {FilterSeq(t.rows, K) : K \in SUBSET RowPool}

\* The delayed-refresh containers as the layouts build them: the selector or
\* text input's value, the children shown, and the dcc.Interval's disabled
\* and n_intervals (dimensionality_reduction_opts.py 316-364,
\* audio_upload/feature_extraction_opts.py 262-285 and 309-342).  A file name
\* or a separator is the sequence of its characters.
IntervalLayout ==
    [dr |-> [value |-> "pca", shown |-> "pca", disabled |-> TRUE, n |-> 0],
     fx |-> [value |-> "mel_features", shown |-> "mel_features",
             disabled |-> TRUE, n |-> 0],
     mv |-> [file |-> <<>>, sep |-> <<"_">>, shown |-> [kind |-> "form", tokens |-> <<>>],
             disabled |-> TRUE, n |-> 0]]

\* The slice of the page display_dimreduction_opts depends on, as the layouts
\* build it: the stores are empty, "confirmed-selection-btn".n_clicks is 0
\* (metaconfig.py 22), the panel style is {"display": "none"}
\* (dimensionality_reduction_opts.py 405).  Dash calls the callback once on
\* page load (it has no prevent_initial_call).
PanelLayout ==
    [stored_table |-> None, stored_data_audio |-> None,
     stored_metainformation_audio |-> None, n_clicks |-> 0, style |-> "none",
     pending |-> {Invocation("display_dimreduction_opts", "", None)},
     last |-> Outcome("", "", "", None, "")]

SessionInit ==
    /\ pw = None
    /\ fe = None
    /\ md = None
    /\ fl = None
    /\ rr = None
    /\ la = None
    /\ pc = None
    /\ dl = None
    /\ iv = IntervalLayout
    /\ dp = PanelLayout
    /\ po = None
    /\ stored_table = None
    /\ stored_metainformation = None
    /\ stored_reduced_data = None
    /\ selected_observations = None
    /\ stored_data_table = None
    /\ stored_data_audio = None
    /\ stored_metainformation_audio = None
    /\ meta_checklist = None
    /\ table_data = None
    /\ table_selected_rows = None
    /\ figure = None
    /\ plot_layout_style = "none"
    /\ pending = {}
    /\ last = [cb |-> "", trig |-> "", outcome |-> "", stage |-> ""]

Idle == pending = {}

\* names the module pages/layouts/visualiser/table_upload/table_upload.py
\* defines at top level
TableUploadModule ==
    {"storage_components", "upload_component", "layout", "upload_table",
     "promote_and_clear_temp_store"}

\* ---- upload_choice (visualiser.py 118-153).  Both branches build the
\* returned tuple left to right; its third element is the call
\* table_upload.upload_table_component(), an attribute lookup on the module.
upload_choice(btn) ==
    /\ UNCHANGED other
    /\ Idle
    /\ IF "upload_table_component" \notin TableUploadModule
       THEN /\ UNCHANGED <<stored_table, stored_metainformation,
                           stored_reduced_data, selected_observations,
                           plot_layout_style, pending>>
            /\ last' = Outcome("upload_choice", btn, "error", None, "AttributeError")
       ELSE /\ stored_table' = None
            /\ stored_metainformation' = None
            /\ stored_reduced_data' = None
            /\ selected_observations' = None
            /\ plot_layout_style' = "none"
            \* the cleared stores are inputs of build_interactive_table
            /\ pending' = {Invocation("build_interactive_table", "stored-table", None)}
            /\ last' = Outcome("upload_choice", btn, "update", None, "")
    /\ UNCHANGED <<stored_data_table, stored_data_audio,
                   stored_metainformation_audio, meta_checklist, table_data,
                   table_selected_rows, figure>>

\* ---- upload_table (table_upload.py 77-110): parse_table_contents returns
\* the table, or None with an alert
upload_table(parsed) ==
    /\ UNCHANGED other
    /\ Idle
    /\ stored_data_table' = parsed
    /\ pending' = {Invocation("display_columns_checklist", "stored-data-table", None)}
    /\ last' = Outcome("upload_table", "upload-table", "update", None, "")
    /\ UNCHANGED <<stored_table, stored_metainformation, stored_reduced_data,
                   selected_observations, stored_data_audio,
                   stored_metainformation_audio, meta_checklist, table_data,
                   table_selected_rows, figure, plot_layout_style>>

\* ---- display_columns_checklist (metaconfig.py 50-80)
display_columns_checklist(inv) ==
    /\ UNCHANGED other
    /\ inv \in pending /\ inv.cb = "display_columns_checklist"
    /\ pending' = pending \ {inv}
    /\ IF ~IsNone(stored_data_table)
       THEN /\ meta_checklist' = Some(<<>>)
            /\ last' = Outcome(inv.cb, inv.trig, "update", None, "")
       ELSE /\ meta_checklist' = meta_checklist
            /\ last' = Outcome(inv.cb, inv.trig, "prevent", None, "")
    /\ UNCHANGED <<stored_table, stored_metainformation, stored_reduced_data,
                   selected_observations, stored_data_table, stored_data_audio,
                   stored_metainformation_audio, table_data,
                   table_selected_rows, figure, plot_layout_style>>

\* ---- the user ticks columns in "meta-columns-checklist"
tick_checklist(v) ==
    /\ UNCHANGED other
    /\ Idle
    /\ ~IsNone(meta_checklist) /\ ~IsNone(stored_data_table)
    /\ v \in ChecklistValues(Val(stored_data_table))
    /\ meta_checklist' = Some(v)
    /\ UNCHANGED <<stored_table, stored_metainformation, stored_reduced_data,
                   selected_observations, stored_data_table, stored_data_audio,
                   stored_metainformation_audio, table_data,
                   table_selected_rows, figure, plot_layout_style, pending, last>>

\* ---- promote_and_clear_temp_store (visualiser.py 176-215).  data and meta
\* are the temporary table and metadata list the trigger selects.
\* new_x = x or dash.no_update; new_meta.insert(0, "row_index") raises
\* AttributeError when new_meta is dash.no_update.
promote(trig, data, meta) ==
    IF IsNone(data) /\ IsNone(meta)
    THEN /\ last' = Outcome("promote_and_clear_temp_store", trig, "prevent", None, "")
         /\ UNCHANGED <<stored_table, stored_metainformation, stored_data_table,
                        stored_data_audio, stored_metainformation_audio>>
         /\ pending' = {i \in pending : i.cb # "promote_and_clear_temp_store"}
    ELSE IF ~TruthyList(meta)
    THEN /\ last' = Outcome("promote_and_clear_temp_store", trig, "error", None,
                            "AttributeError")
         /\ UNCHANGED <<stored_table, stored_metainformation, stored_data_table,
                        stored_data_audio, stored_metainformation_audio>>
         /\ pending' = {i \in pending : i.cb # "promote_and_clear_temp_store"}
    ELSE /\ stored_table' = IF TruthyTable(data) THEN data ELSE stored_table
         /\ stored_metainformation' = Some(<<"row_index">> \o Val(meta))
         /\ stored_data_table' = None
         /\ stored_data_audio' = None
         /\ stored_metainformation_audio' = None
         /\ last' = Outcome("promote_and_clear_temp_store", trig, "update", None, "")
         \* the written stores are inputs of build_interactive_table, the
         \* cleared ones of display_columns_checklist and of this callback
         /\ pending' = {i \in pending : i.cb # "promote_and_clear_temp_store"}
               \cup {Invocation("build_interactive_table", "stored-table", None),
                     Invocation("display_columns_checklist", "stored-data-table", None),
                     Invocation("promote_and_clear_temp_store", "stored-data-audio", None)}

\* the user clicks "Confirm selection" (shown with the checklist)
promote_on_confirm ==
    /\ UNCHANGED other
    /\ Idle
    /\ ~IsNone(meta_checklist)
    /\ promote("confirmed-selection-btn", stored_data_table, meta_checklist)
    /\ UNCHANGED <<stored_reduced_data, selected_observations, meta_checklist,
                   table_data, table_selected_rows, figure, plot_layout_style>>

\* "stored-data-audio".data changed
promote_on_audio(inv) ==
    /\ UNCHANGED other
    /\ inv \in pending /\ inv.cb = "promote_and_clear_temp_store"
    /\ promote("stored-data-audio", stored_data_audio, stored_metainformation_audio)
    /\ UNCHANGED <<stored_reduced_data, selected_observations, meta_checklist,
                   table_data, table_selected_rows, figure, plot_layout_style>>

\* ---- build_interactive_table (table_preview.py 119-208).  A rebuilt
\* DataTable is a new component: its selected_rows is the default [], and
\* Dash runs the callbacks that have the inserted property as an input.
build_interactive_table(inv) ==
    /\ UNCHANGED other
    /\ inv \in pending /\ inv.cb = "build_interactive_table"
    /\ IF IsNone(stored_table) /\ IsNone(stored_metainformation)
       THEN /\ table_data' = None
            /\ table_selected_rows' = None
            /\ pending' = pending \ {inv}
            /\ last' = Outcome(inv.cb, inv.trig, "update", None, "")
       ELSE IF IsNone(stored_table)
       THEN \* sample_row = data_table[0] on None
            /\ UNCHANGED <<table_data, table_selected_rows>>
            /\ pending' = pending \ {inv}
            /\ last' = Outcome(inv.cb, inv.trig, "error", None, "TypeError")
       ELSE /\ table_data' = stored_table
            /\ table_selected_rows' = Some(<<>>)
            /\ pending' = (pending \ {inv})
                  \cup {Invocation(cb, "interactive-table", None) :
                            cb \in SelectionCallbacks}
            /\ last' = Outcome(inv.cb, inv.trig, "update", None, "")
    /\ UNCHANGED <<stored_table, stored_metainformation, stored_reduced_data,
                   selected_observations, stored_data_table, stored_data_audio,
                   stored_metainformation_audio, meta_checklist, figure,
                   plot_layout_style>>

\* ---- the user's selection events.  Both selection callbacks list the two
\* buttons and "interactive-table".selected_rows as inputs.
SelectAll(filtered) ==
    /\ UNCHANGED other
    /\ Idle /\ ~IsNone(table_data)
    /\ filtered \in FilteredViews(Val(table_data))
    /\ pending' = {Invocation(cb, "select-all-btn", Some(filtered)) :
                      cb \in SelectionCallbacks}
    /\ UNCHANGED <<stored_table, stored_metainformation, stored_reduced_data,
                   selected_observations, stored_data_table, stored_data_audio,
                   stored_metainformation_audio, meta_checklist, table_data,
                   table_selected_rows, figure, plot_layout_style, last>>

DeselectAll ==
    /\ UNCHANGED other
    /\ Idle /\ ~IsNone(table_data)
    /\ pending' = {Invocation(cb, "deselect-all-btn", None) :
                      cb \in SelectionCallbacks}
    /\ UNCHANGED <<stored_table, stored_metainformation, stored_reduced_data,
                   selected_observations, stored_data_table, stored_data_audio,
                   stored_metainformation_audio, meta_checklist, table_data,
                   table_selected_rows, figure, plot_layout_style, last>>

\* the user ticks rows of the table: the component's selected_rows changes
TableRowsPicked(rows) ==
    /\ UNCHANGED other
    /\ Idle /\ ~IsNone(table_data)
    /\ Range(rows) \subseteq 0..(NRows(Val(table_data)) - 1)
    /\ table_selected_rows' = Some(rows)
    /\ pending' = {Invocation(cb, "interactive-table", None) :
                      cb \in SelectionCallbacks}
    /\ UNCHANGED <<stored_table, stored_metainformation, stored_reduced_data,
                   selected_observations, stored_data_table, stored_data_audio,
                   stored_metainformation_audio, meta_checklist, table_data,
                   figure, plot_layout_style, last>>

\* the user brushes the graph: "plot".selectedData changes
PlotPointsPicked(sel) ==
    /\ UNCHANGED other
    /\ Idle /\ plot_layout_style = "block"
    /\ sel \in PlotSelections
    /\ pending' = {Invocation("sync_selected_data", "plot", sel)}
    /\ UNCHANGED <<stored_table, stored_metainformation, stored_reduced_data,
                   selected_observations, stored_data_table, stored_data_audio,
                   stored_metainformation_audio, meta_checklist, table_data,
                   table_selected_rows, figure, plot_layout_style, last>>

\* selected = [i for i, row in enumerate(original_rows) if row in filtered_rows]
SelectAllRows(original_rows, filtered_rows) ==
    SelectIdx(Len(original_rows),
              {i \in 0..(Len(original_rows) - 1) :
                  original_rows[i + 1] \in Range(filtered_rows)})

\* the selection a table-side trigger computes (visualiser.py 254-259, 345-353)
TableSideSelection(inv) ==
    IF inv.trig = "select-all-btn"
    THEN SelectAllRows(Val(table_data).rows, Val(inv.arg))
    ELSE IF inv.trig = "deselect-all-btn" THEN <<>>
    ELSE IF TruthyList(table_selected_rows) THEN Val(table_selected_rows)
    ELSE <<>>

\* ---- table_selected_data (visualiser.py 236-261)
table_selected_data(inv) ==
    /\ UNCHANGED other
    /\ inv \in pending /\ inv.cb = "table_selected_data"
    /\ IF ~IsNone(stored_reduced_data)
       THEN /\ UNCHANGED <<selected_observations, table_selected_rows>>
            /\ pending' = pending \ {inv}
            /\ last' = Outcome(inv.cb, inv.trig, "prevent", None, "")
       ELSE LET selected == TableSideSelection(inv)
            IN /\ selected_observations' = Some(selected)
               /\ table_selected_rows' = Some(selected)
               \* selected_rows is an input of sync_selected_data
               /\ pending' = (pending \ {inv})
                     \cup {Invocation("sync_selected_data", "interactive-table", None)}
               /\ last' = Outcome(inv.cb, inv.trig, "update", Some(selected), "")
    /\ UNCHANGED <<stored_table, stored_metainformation, stored_reduced_data,
                   stored_data_table, stored_data_audio,
                   stored_metainformation_audio, meta_checklist, table_data,
                   figure, plot_layout_style>>

sync_selected_dataMutNoGuard(inv, n_components) ==
    /\ UNCHANGED other
    /\ inv \in pending /\ inv.cb = "sync_selected_data"
    /\ pending' = pending \ {inv}
    /\ LET selected == IF inv.trig # "plot" THEN TableSideSelection(inv)
                       ELSE IF inv.arg = None THEN <<>>
                       ELSE [i \in DOMAIN Val(inv.arg) |-> Val(inv.arg)[i].cd]
       IN /\ selected_observations' = Some(selected)
          /\ table_selected_rows' = Some(selected)
    /\ last' = Outcome(inv.cb, inv.trig, "update", None, "")
    /\ UNCHANGED <<stored_table, stored_metainformation, stored_reduced_data,
                   stored_data_table, stored_data_audio,
                   stored_metainformation_audio, meta_checklist, table_data,
                   figure, plot_layout_style>>

\* ---- sync_selected_data (visualiser.py 292-403)
sync_selected_data(inv, n_components) ==
    /\ UNCHANGED other
    /\ inv \in pending /\ inv.cb = "sync_selected_data"
    /\ IF IsNone(stored_reduced_data)
       THEN /\ UNCHANGED <<selected_observations, table_selected_rows, figure>>
            /\ pending' = pending \ {inv}
            /\ last' = Outcome(inv.cb, inv.trig, "prevent", None, "")
       ELSE IF inv.trig = "plot"
       THEN IF IsNone(inv.arg)
            THEN \* not plot_selected or "points" not in plot_selected
                 /\ UNCHANGED <<selected_observations, table_selected_rows, figure>>
                 /\ pending' = pending \ {inv}
                 /\ last' = Outcome(inv.cb, inv.trig, "prevent", None, "")
            ELSE IF \E i \in DOMAIN Val(inv.arg) : IsNone(Val(inv.arg)[i].cd)
            THEN \* pt["customdata"] raises, the except clause re-raises
                 /\ UNCHANGED <<selected_observations, table_selected_rows, figure>>
                 /\ pending' = pending \ {inv}
                 /\ last' = Outcome(inv.cb, inv.trig, "error", None, "KeyError")
            ELSE LET pts == Val(inv.arg)
                     selected == [i \in DOMAIN pts |-> Val(pts[i].cd)]
                     \* fig = go.Figure(fig_dict) if fig_dict else None;
                     \* if fig: fig.update_layout(dragmode="select")
                     fig == IF IsNone(figure) THEN None
                            ELSE Some([Val(figure) EXCEPT !.dragmode = "select"])
                 IN /\ selected_observations' = Some(selected)
                    /\ figure' = fig
                    /\ table_selected_rows' = Some(selected)
                    \* selected_rows is an input of table_selected_data
                    /\ pending' = (pending \ {inv})
                          \cup {Invocation("table_selected_data", "interactive-table", None)}
                    /\ last' = Outcome(inv.cb, inv.trig, "update", Some(selected), "")
       ELSE LET selected == TableSideSelection(inv)
                \* scatter_2d / scatter_3d inside try; a failure is printed
                \* and swallowed, and `fig` stays unassigned
                call == IF n_components \in {2, 3} THEN scatter(SyncScatterKw)
                        ELSE [err |-> "ValueError", fig |-> None]
            IN IF call.err # ""
               THEN \* `if fig:` reads the unassigned local
                    /\ UNCHANGED <<selected_observations, table_selected_rows, figure>>
                    /\ pending' = pending \ {inv}
                    /\ last' = Outcome(inv.cb, inv.trig, "error", Some(selected),
                                       "UnboundLocalError")
               ELSE /\ selected_observations' = Some(selected)
                    /\ figure' = Some([dragmode |-> "select",
                                       selections |-> Some(selected)])
                    /\ table_selected_rows' = Some(selected)
                    /\ pending' = (pending \ {inv})
                          \cup {Invocation("table_selected_data", "interactive-table", None)}
                    /\ last' = Outcome(inv.cb, inv.trig, "update", Some(selected), "")
    /\ UNCHANGED <<stored_table, stored_metainformation, stored_reduced_data,
                   stored_data_table, stored_data_audio,
                   stored_metainformation_audio, meta_checklist, table_data,
                   plot_layout_style>>

\* ---- run_dim_reduction (plot_layout.py 336-463).  a is the value of the
\* algorithm selector, form the algorithm whose "dim-red-param" fields the
\* page shows (or "loading"), values the values of those fields, algo_ok
\* whether the external algorithm returns.  Every failure return writes None to
\* "stored-reduced-data".
run_dim_reduction(a, form, n_components, values, algo_ok) ==
    /\ UNCHANGED other
    /\ Idle
    /\ values \in FieldValues(FormFields(form))
    /\ ~IsNone(stored_table)       \* "dim-reduction-options" is displayed
    /\ IF IsNone(stored_table) \/ IsNone(stored_metainformation)
       THEN /\ UNCHANGED stored_reduced_data
            /\ last' = Outcome("run_dim_reduction", "run-dim-red-btn", "prevent", None, "")
       ELSE LET parsed == ResolveParams(a, n_components, FormFields(form), values)
                X == prep_data_dim_red(Val(stored_table), stored_metainformation)
                k == parsed.kwargs["n_components"]
                ran == algo_ok /\ ~AlgorithmMustFail(a, X, k)
                rec == reconstruct_reduced_data(ReducedMatrix(X.n, k),
                                                Val(stored_table),
                                                stored_metainformation)
            IN IF parsed.err # ""
               THEN /\ stored_reduced_data' = None
                    /\ last' = Outcome("run_dim_reduction", "run-dim-red-btn",
                                       "update", None, "parse")
               ELSE IF ~ran
               THEN /\ stored_reduced_data' = None
                    /\ last' = Outcome("run_dim_reduction", "run-dim-red-btn",
                                       "update", None, "algorithm")
               ELSE IF rec.err # ""
               THEN /\ stored_reduced_data' = None
                    /\ last' = Outcome("run_dim_reduction", "run-dim-red-btn",
                                       "update", None, "reconstruct")
               ELSE /\ stored_reduced_data' = Some(rec.table)
                    /\ last' = Outcome("run_dim_reduction", "run-dim-red-btn",
                                       "update", None, "")
    /\ UNCHANGED <<stored_table, stored_metainformation, selected_observations,
                   stored_data_table, stored_data_audio,
                   stored_metainformation_audio, meta_checklist, table_data,
                   table_selected_rows, figure, plot_layout_style, pending>>

\* ---- "Plot reduced data": create_style_dropdowns (plot_layout.py 480-517)
\* shows the plot layout; plot_update has the same button as an input
create_style_dropdowns ==
    /\ UNCHANGED other
    /\ Idle
    /\ ~IsNone(stored_table)       \* "dim-reduction-options" is displayed
    /\ plot_layout_style' = "block"
    /\ pending' = {Invocation("plot_update", "plot-data-btn", None)}
    /\ last' = Outcome("create_style_dropdowns", "plot-data-btn", "update", None, "")
    /\ UNCHANGED <<stored_table, stored_metainformation, stored_reduced_data,
                   selected_observations, stored_data_table, stored_data_audio,
                   stored_metainformation_audio, meta_checklist, table_data,
                   table_selected_rows, figure>>

\* ---- plot_update (plot_layout.py 541-653)
plot_update(inv, n_components) ==
    /\ UNCHANGED other
    /\ inv \in pending /\ inv.cb = "plot_update"
    /\ pending' = pending \ {inv}
    /\ IF IsNone(stored_reduced_data)
       THEN /\ UNCHANGED figure
            /\ last' = Outcome(inv.cb, inv.trig, "prevent", None, "")
       ELSE LET call == scatter(PlotScatterKw)
            IN IF n_components # 2 \/ call.err # ""
               THEN \* return (None, dbc.Alert(...))
                    /\ figure' = None
                    /\ last' = Outcome(inv.cb, inv.trig, "update", None, "figure")
               ELSE /\ figure' = Some([Val(call.fig) EXCEPT !.dragmode = "select"])
                    /\ last' = Outcome(inv.cb, inv.trig, "update", None, "")
    /\ UNCHANGED <<stored_table, stored_metainformation, stored_reduced_data,
                   selected_observations, stored_data_table, stored_data_audio,
                   stored_metainformation_audio, meta_checklist, table_data,
                   table_selected_rows, plot_layout_style>>

\* ---- extract_features (audio_upload.py 131-182).  ret is what
\* parse_audio_contents returns (data_loader.py 76, 86, 106, 112): a pair.
\* Line 159 unpacks it into three names.
AudioTables == {[cols |-> <<"filename", "c1_mean", "c1_std">>,
                 num |-> {"c1_mean", "c1_std"},
                 rows |-> << <<"a.wav", 1, 2>> >>]}
ParseAudioReturns ==
    {<<Some(t), None>> : t \in AudioTables} \cup {<<None, Some("alert")>>}

extract_features(ret) ==
    /\ UNCHANGED other
    /\ Idle
    /\ ret \in ParseAudioReturns
    /\ IF Len(ret) # 3
       THEN \* ValueError: not enough values to unpack
            /\ UNCHANGED <<stored_data_audio, stored_metainformation_audio, pending>>
            /\ last' = Outcome("extract_features", "extract-features-btn",
                               "error", None, "ValueError")
       ELSE /\ stored_data_audio' = ret[1]
            /\ stored_metainformation_audio' = ret[2]
            /\ pending' = {Invocation("promote_and_clear_temp_store",
                                      "stored-data-audio", None)}
            /\ last' = Outcome("extract_features", "extract-features-btn",
                               "update", None, "")
    /\ UNCHANGED <<stored_table, stored_metainformation, stored_reduced_data,
                   selected_observations, stored_data_table, meta_checklist,
                   table_data, table_selected_rows, figure, plot_layout_style>>

\* the inputs the actions draw from
RunInputs ==
    UNION {{<<a, f, n, v>> : a \in Algorithms, n \in Dimensions,
                             v \in FieldValues(FormFields(f))} : f \in FormStates}
RowPicks == {r \in Arrangements(0..(MaxRows - 1)) : Len(r) <= MaxPoints}
AllFilteredViews == UNION {FilteredViews(t) : t \in UploadTables}
AllChecklistValues == UNION {ChecklistValues(t) : t \in UploadTables}

SessionNext ==
    \/ \E btn \in {"upload-table-btn", "upload-audio-btn"} : upload_choice(btn)
    \/ \E t \in UploadTables : upload_table(Some(t))
    \/ upload_table(None)
    \/ \E inv \in pending : display_columns_checklist(inv)
    \/ \E v \in AllChecklistValues : tick_checklist(v)
    \/ promote_on_confirm
    \/ \E inv \in pending : promote_on_audio(inv)
    \/ \E inv \in pending : build_interactive_table(inv)
    \/ \E f \in AllFilteredViews : SelectAll(f)
    \/ DeselectAll
    \/ \E r \in RowPicks : TableRowsPicked(r)
    \/ \E s \in PlotSelections : PlotPointsPicked(s)
    \/ \E inv \in pending : table_selected_data(inv)
    \/ \E inv \in pending : \E n \in Dimensions : sync_selected_data(inv, n)
    \/ \E x \in RunInputs : \E ok \in BOOLEAN :
          run_dim_reduction(x[1], x[2], x[3], x[4], ok)
    \/ create_style_dropdowns
    \/ \E inv \in pending : \E n \in Dimensions : plot_update(inv, n)
    \/ \E ret \in ParseAudioReturns : extract_features(ret)

Spec == SessionInit /\ [][SessionNext]_vars

\* the step runs the pending invocation inv of callback cb
Runs(cb, inv) ==
    inv \in pending /\ inv.cb = cb /\ inv \notin pending' /\ last'.cb = cb

SameSet(a, b) == Range(a) = Range(b)

\* C1 as stated: a selection handler whose computed selection is set-equal to
\* the stored selection does nothing further: it rewrites neither
\* "selected-observations" nor the table's selected_rows nor the figure.
C1_AsStated ==
    [][\A inv \in pending :
          /\ (/\ Runs("table_selected_data", inv)
              /\ stored_reduced_data = None /\ selected_observations # None
              /\ SameSet(TableSideSelection(inv), Val(selected_observations)))
             => last'.outcome # "update"
          /\ (/\ Runs("sync_selected_data", inv)
              /\ stored_reduced_data # None /\ selected_observations # None
              /\ inv.trig = "plot" /\ inv.arg # None
              /\ \A i \in DOMAIN Val(inv.arg) : Val(inv.arg)[i].cd # None
              /\ SameSet([i \in DOMAIN Val(inv.arg) |-> Val(Val(inv.arg)[i].cd)],
                         Val(selected_observations)))
             => last'.outcome # "update"]_vars

\* C2 as stated: a plot selection with customdata[0] in P pushes P to the
\* table's selected_rows, and rows P picked in the table, with a reduced table
\* stored, give a recomputed figure whose selected points are exactly P.
C2_AsStated ==
    [][\A inv \in pending :
          (Runs("sync_selected_data", inv) /\ stored_reduced_data # None) =>
             /\ (/\ inv.trig = "plot" /\ inv.arg # None
                 /\ \A i \in DOMAIN Val(inv.arg) : Val(inv.arg)[i].cd # None)
                => table_selected_rows' =
                      Some([i \in DOMAIN Val(inv.arg) |-> Val(Val(inv.arg)[i].cd)])
             /\ inv.trig = "interactive-table"
                => /\ figure' # None
                   /\ Val(figure').selections = Some(TableSideSelection(inv))]_vars

\* no row is selected
NoSelection(sel) == sel = None \/ sel = Some(<<>>)

\* C3 as stated: a step that stores a new active table, promoted into
\* "stored-table" or freshly reduced into "stored-reduced-data", and leaves no
\* callback to run, leaves "selected-observations" empty.
C3_AsStated ==
    [][(/\ \/ stored_table' # stored_table /\ stored_table' # None
           \/ stored_reduced_data' # stored_reduced_data
              /\ stored_reduced_data' # None
        /\ pending' = {})
       => NoSelection(selected_observations')]_vars

\* C4 as stated: a failed extract_features or run_dim_reduction leaves
\* "stored-table", "stored-reduced-data" and "selected-observations" as they
\* were.
C4_AsStated ==
    [][(\/ last'.cb = "run_dim_reduction"
           /\ last'.stage \in {"parse", "algorithm", "reconstruct"}
        \/ last'.cb = "extract_features" /\ last'.outcome = "error")
       => UNCHANGED <<stored_table, stored_reduced_data, selected_observations>>]_vars

\* customdata[0] of the points that carry customdata, in event order
RECURSIVE PickedRows(_)
PickedRows(pts) ==
    IF pts = <<>> THEN <<>>
    ELSE (IF Head(pts).cd = None THEN <<>> ELSE <<Val(Head(pts).cd)>>)
         \o PickedRows(Tail(pts))

\* C12 as stated: a plot selection event, with a reduced table stored, some
\* of whose points carry no customdata does not fail: the handler updates,
\* and the new selection is the row indices of the points that carry one.
C12_AsStated ==
    [][\A inv \in pending :
          (/\ Runs("sync_selected_data", inv) /\ stored_reduced_data # None
           /\ inv.trig = "plot" /\ inv.arg # None
           /\ \E i \in DOMAIN Val(inv.arg) : Val(inv.arg)[i].cd = None)
          => /\ last'.outcome = "update"
             /\ selected_observations' = Some(PickedRows(Val(inv.arg)))]_vars

ViewIndices(filtered) ==
    {i \in 0..(NRows(Val(table_data)) - 1) :
        Val(table_data).rows[i + 1] \in Range(filtered)}

\* C14 as stated: on SelectAll the handler of the mode - table_selected_data
\* while no reduced table is stored, sync_selected_data while one is - stores
\* as the new selection exactly the row indices of the rows in the filtered
\* view.
C14_AsStated ==
    [][\A inv \in pending :
          (/\ inv.trig = "select-all-btn"
           /\ \/ Runs("table_selected_data", inv) /\ stored_reduced_data = None
              \/ Runs("sync_selected_data", inv) /\ stored_reduced_data # None)
          => /\ selected_observations' # None
             /\ Range(Val(selected_observations')) = ViewIndices(Val(inv.arg))]_vars

\* C15 as stated: every row of the table in "stored-table" carries a
\* row_index, an integer no other row of the table carries.
C15_AsStated ==
    stored_table # None =>
        LET t == Val(stored_table)
        IN /\ "row_index" \in Range(t.cols)
           /\ \A i \in DOMAIN t.rows :
                /\ t.rows[i][ColIdx(t.cols, "row_index")] \in Int
                /\ \A j \in DOMAIN t.rows :
                     t.rows[j][ColIdx(t.cols, "row_index")]
                        = t.rows[i][ColIdx(t.cols, "row_index")] => j = i

\* the selection a store or a component holds, None being the empty one
Held(x) == IF IsNone(x) THEN {} ELSE Range(Val(x))

\* C19 as stated: a selection callback that produces an update writes one
\* list to "selected-observations" and to the table's selected_rows, and the
\* figure sync_selected_data returns with them marks that list; and once
\* the callbacks of an event have run, the store, the table and the figure
\* (where there is one) hold the same selection.
C19_AsStated ==
    /\ [][\A inv \in pending : \A cb \in SelectionCallbacks :
             (Runs(cb, inv) /\ last'.outcome = "update")
             => /\ selected_observations' # None
                /\ table_selected_rows' = selected_observations'
                /\ cb = "sync_selected_data"
                   => /\ figure' # None
                      /\ Val(figure').selections = selected_observations']_vars
    /\ [](Idle => /\ Held(table_selected_rows) = Held(selected_observations)
                  /\ figure # None
                     => Held(Val(figure).selections) = Held(selected_observations))

\* C20 as stated: extract_features run on a batch parse_audio_contents
\* turns into a table stores that table in "stored-data-audio" and a list of
\* its metadata columns in "stored-metainformation-audio", and the promotion
\* this triggers makes the table the active "stored-table", its metadata
\* list in "stored-metainformation".
C20_AsStated ==
    /\ [][\A ret \in ParseAudioReturns :
             (extract_features(ret) /\ ret[1] # None)
             => /\ stored_data_audio' = ret[1]
                /\ stored_metainformation_audio' # None
                /\ Range(Val(stored_metainformation_audio'))
                      \subseteq Range(Val(ret[1]).cols)
                /\ \E inv \in pending' :
                      /\ inv.cb = "promote_and_clear_temp_store"
                      /\ inv.trig = "stored-data-audio"]_vars
    /\ [][\A inv \in pending :
             (/\ promote_on_audio(inv) /\ inv.trig = "stored-data-audio"
              /\ stored_data_audio # None /\ stored_metainformation_audio # None)
             => /\ stored_table' = stored_data_audio
                /\ stored_metainformation' # None
                /\ Range(Val(stored_metainformation_audio))
                      \subseteq Range(Val(stored_metainformation'))]_vars

\* C21 as stated: a click on either upload-mode button clears "stored-table",
\* "stored-metainformation", "stored-reduced-data" and
\* "selected-observations" in one update and hides the plot, whatever they
\* held.
C21_AsStated ==
    [][\A btn \in {"upload-table-btn", "upload-audio-btn"} :
          upload_choice(btn)
          => /\ stored_table' = None
             /\ stored_metainformation' = None
             /\ stored_reduced_data' = None
             /\ selected_observations' = None
             /\ plot_layout_style' = "none"]_vars

\* C23 as stated: once the callbacks an event triggered have run, every
\* index held in "selected-observations" is a row position of the table in
\* "stored-table": 0 <= i < number of rows.
C23_AsStated ==
    Idle =>
        \A i \in Held(selected_observations) :
            /\ stored_table # None
            /\ i \in 0..(NRows(Val(stored_table)) - 1)

\* C24 as stated: of the two callbacks a SelectAll, DeselectAll or row-pick
\* event triggers, table_selected_data writes "selected-observations" if and
\* only if no reduced table is stored, and sync_selected_data if and only if
\* one is stored, so that exactly one of them writes.
C24_AsStated ==
    [][\A inv \in pending :
          inv.trig \in {"select-all-btn", "deselect-all-btn", "interactive-table"}
          => /\ Runs("table_selected_data", inv)
                => (last'.outcome = "update" <=> stored_reduced_data = None)
             /\ Runs("sync_selected_data", inv)
                => (last'.outcome = "update" <=> stored_reduced_data # None)]_vars

\* C25 as stated: confirming an uploaded table with no column ticked in the
\* checklist promotes it: the table becomes "stored-table",
\* "stored-metainformation" becomes ["row_index"], the temporary stores are
\* cleared, and no error is raised.
C25_AsStated ==
    [][(/\ promote_on_confirm
        /\ TruthyTable(stored_data_table)
        /\ meta_checklist = Some(<<>>))
       => /\ last'.outcome = "update"
          /\ stored_table' = stored_data_table
          /\ stored_metainformation' = Some(<<"row_index">>)
          /\ stored_data_table' = None
          /\ stored_data_audio' = None
          /\ stored_metainformation_audio' = None]_vars

-----------------------------------------------------------------------------
(* The parameter walk of run_dim_reduction, one loop turn at a time         *)

\* the try block of line 347 is entered with the selector value a, the
\* "dim-red-param" fields on the page and their values
WalkBegin(a, form, n_components, values) ==
    /\ pw = None
    /\ values \in FieldValues(FormFields(form))
    /\ pw' = Some([a |-> a, fields |-> FormFields(form), values |-> values,
                   st |-> WalkStart(n_components)])
    /\ UNCHANGED <<sessionVars, fe, md, fl, rr, la, pc, dl, iv, dp, po>>

\* while i < len(input_params): one turn
WalkTurn ==
    /\ pw # None
    /\ Val(pw).st.err = "" /\ Val(pw).st.i < Len(Val(pw).fields)
    /\ pw' = Some([Val(pw) EXCEPT
                      !.st = WalkStep(Val(pw).a, Val(pw).fields, Val(pw).values, @)])
    /\ UNCHANGED <<sessionVars, fe, md, fl, rr, la, pc, dl, iv, dp, po>>

\* the loop is left, by its condition or by the except clause of line 382
WalkEnd ==
    /\ pw # None
    /\ Val(pw).st.err # "" \/ Val(pw).st.i >= Len(Val(pw).fields)
    /\ pw' = None
    /\ UNCHANGED <<sessionVars, fe, md, fl, rr, la, pc, dl, iv, dp, po>>

ParamsNext ==
    \/ \E x \in RunInputs : WalkBegin(x[1], x[2], x[3], x[4])
    \/ WalkTurn
    \/ WalkEnd

SpecParams == SessionInit /\ [][ParamsNext]_vars

\* a turn of the walk that binds a parameter: the position it starts at, the
\* parameter it reads there and the position it leaves
TurnTaken == pw # None /\ pw' # None /\ Val(pw').st.err = ""
                       /\ Val(pw').st.i # Val(pw).st.i
TurnAt == Val(pw).st.i + 1
TurnParam == Val(pw).fields[TurnAt][2]
TurnAdvance == Val(pw').st.i - Val(pw).st.i
TurnBound == Val(pw').st.kwargs[TurnParam]

\* C5 as stated: a parameter with a custom option whose primary value is
\* "custom" takes the next value and the walk advances two positions; in
\* every other case the parameter takes the value at its own position and the
\* walk advances one position.
C5_AsStated ==
    [][TurnTaken =>
         IF HasCustomOptions(Val(pw).a, TurnParam)
            /\ Val(pw).values[TurnAt] = "custom"
         THEN TurnBound = Val(pw).values[TurnAt + 1] /\ TurnAdvance = 2
         ELSE TurnBound = Val(pw).values[TurnAt] /\ TurnAdvance = 1]_vars

\* C5, amended: a parameter with a custom option always takes up two
\* positions of the list, its primary field and its companion; it is bound to
\* the companion's value if the primary value is "custom" and to the primary
\* value otherwise.  A parameter without a custom option is bound to the value
\* at its own position and the walk advances one position.
C5_Walk ==
    [][TurnTaken =>
         IF HasCustomOptions(Val(pw).a, TurnParam)
         THEN /\ TurnAdvance = 2
              /\ TurnBound = IF Val(pw).values[TurnAt] = "custom"
                             THEN Val(pw).values[TurnAt + 1]
                             ELSE Val(pw).values[TurnAt]
         ELSE TurnBound = Val(pw).values[TurnAt] /\ TurnAdvance = 1]_vars

\* the walk over the t-SNE form has bound learning_rate to the companion's
\* 450.0 and stands behind the companion
C5_Witness ==
    /\ pw # None
    /\ Val(pw).a = "tsne" /\ Val(pw).fields = create_algorithm_params_form("tsne")
    /\ Val(pw).values[2] = "custom" /\ Val(pw).values[3] = "450.0"
    /\ Val(pw).st.i = 3 /\ Val(pw).st.err = ""
    /\ Val(pw).st.kwargs["learning_rate"] = "450.0"

\* C27 as stated: when the walk is left without an error (the algorithm is
\* invoked next), the fields it read are the form of the selected algorithm
\* and the keyword arguments are n_components plus one entry per parameter
\* of that algorithm's schema, each bound to its own field's value, or to
\* its own companion's value when the field holds "custom".
C27_AsStated ==
    (pw # None /\ Val(pw).st.err = "" /\ Val(pw).st.i >= Len(Val(pw).fields)) =>
        LET r == Val(pw)
        IN /\ r.fields = create_algorithm_params_form(r.a)
           /\ DOMAIN r.st.kwargs = {"n_components"} \cup Range(ParamOrder(r.a))
           /\ \A idx \in DOMAIN r.fields :
                Len(r.fields[idx]) = 2
                => r.st.kwargs[r.fields[idx][2]]
                     = IF HasCustomOptions(r.a, r.fields[idx][2])
                          /\ r.values[idx] = "custom"
                       THEN r.values[idx + 1]
                       ELSE r.values[idx]

-----------------------------------------------------------------------------
(* The reduction of run_dim_reduction after parameter parsing, one stage at  *)
(* a time (plot_layout.py 393-463)                                          *)

\* tables a reduction is run on
\* an upload that brings numeric columns named "index" and "row_index" of
\* its own, next to a feature and a text column
IndexedCols == <<"index", "f1", "row_index", "speaker">>
IndexedNumeric == {"index", "f1", "row_index"}
IndexedRow(i) == <<i - 1, UploadRow(i)[1], i - 1, UploadRow(i)[2]>>

ReduceTables ==
    {[cols |-> UploadCols, num |-> UploadNumeric,
      rows |-> [i \in 1..n |-> UploadRow(i)]] : n \in 1..MaxRows}
    \cup {[cols |-> IndexedCols, num |-> IndexedNumeric,
           rows |-> [i \in 1..n |-> IndexedRow(i)]] : n \in 1..MaxRows}

\* metadata lists: columns of the table, "row_index" (which promotion puts
\* first) and a name that is no column; the empty list is one of them
MetaNames == Range(UploadCols) \cup {"row_index", "age"}
MetaLists == {m \in Arrangements(MetaNames) : Len(m) <= MaxMeta + 1}

ReduceBegin(data, metavars, a, k) ==
    /\ rr = None
    /\ rr' = Some([data |-> data, metavars |-> Some(metavars), a |-> a, k |-> k,
                   pc |-> "prep", X |-> None, reduced_X |-> None,
                   out |-> None, err |-> ""])
    /\ UNCHANGED <<sessionVars, pw, fe, md, fl, la, pc, dl, iv, dp, po>>

\* X = _prep_data_dim_red(data=data_table, metavars=metavars)
ReducePrep ==
    /\ rr # None /\ Val(rr).pc = "prep"
    /\ rr' = Some([Val(rr) EXCEPT
                      !.X = Some(prep_data_dim_red(Val(rr).data, Val(rr).metavars)),
                      !.pc = "algorithm"])
    /\ UNCHANGED <<sessionVars, pw, fe, md, fl, la, pc, dl, iv, dp, po>>

\* the call of pca_reduction / umap_reduction / tsne_reduction / mds_reduction
ReduceAlgorithm(algo_ok) ==
    /\ rr # None /\ Val(rr).pc = "algorithm"
    /\ LET r == Val(rr)
       IN IF algo_ok /\ ~AlgorithmMustFail(r.a, Val(r.X), r.k)
          THEN rr' = Some([r EXCEPT !.reduced_X = Some(ReducedMatrix(Val(r.X).n, r.k)),
                                    !.pc = "reconstruct"])
          ELSE rr' = Some([r EXCEPT !.err = "algorithm", !.pc = "done"])
    /\ UNCHANGED <<sessionVars, pw, fe, md, fl, la, pc, dl, iv, dp, po>>

\* new_data = _reconstruct_reduced_data(reduced_X, data_table, metavars)
ReduceReconstruct ==
    /\ rr # None /\ Val(rr).pc = "reconstruct"
    /\ LET r == Val(rr)
           rec == reconstruct_reduced_data(Val(r.reduced_X), r.data, r.metavars)
       IN IF rec.err # ""
          THEN rr' = Some([r EXCEPT !.err = rec.err, !.pc = "done"])
          ELSE rr' = Some([r EXCEPT !.out = Some(rec.table), !.pc = "done"])
    /\ UNCHANGED <<sessionVars, pw, fe, md, fl, la, pc, dl, iv, dp, po>>

ReduceEnd ==
    /\ rr # None /\ Val(rr).pc = "done"
    /\ rr' = None
    /\ UNCHANGED <<sessionVars, pw, fe, md, fl, la, pc, dl, iv, dp, po>>

ReduceNext ==
    \/ \E data \in ReduceTables : \E m \in MetaLists :
         \E a \in Algorithms : \E k \in Dimensions : ReduceBegin(data, m, a, k)
    \/ ReducePrep
    \/ \E ok \in BOOLEAN : ReduceAlgorithm(ok)
    \/ ReduceReconstruct
    \/ ReduceEnd

SpecReduce == SessionInit /\ [][ReduceNext]_vars

\* the table the round trip promises for table d, metadata list m and k
\* dimensions: metadata columns of d in the order of m, then DIM1..DIMk
RoundTripCols(d, m, k) == FilterSeq(m, Range(d.cols)) \o ReducedCols(k)

\* C6 as stated: whenever the algorithm has returned an embedding for a table
\* of n rows, whatever the metadata list (empty and disjoint ones included),
\* the reduction returns a table of n rows with the metadata columns the
\* table has, in the order of the list, then DIM1..DIMk, row i of the result
\* holding the metadata and the embedding of row i of the table.
C6_AsStated ==
    (rr # None /\ Val(rr).pc = "done" /\ Val(rr).reduced_X # None) =>
        LET r == Val(rr)
            cols == RoundTripCols(r.data, Val(r.metavars), r.k)
            nmeta == Len(cols) - r.k
        IN /\ r.out # None
           /\ NRows(Val(r.out)) = NRows(r.data)
           /\ Val(r.out).cols = cols
           /\ \A i \in 1..NRows(r.data) :
                /\ \A c \in 1..nmeta :
                     Val(r.out).rows[i][c] = r.data.rows[i][ColIdx(r.data.cols, cols[c])]
                /\ \A j \in 1..r.k : Val(r.out).rows[i][nmeta + j] = <<i, j>>

\* C18 as stated: the feature matrix holds one row per row of the table and
\* has as columns, in table order, exactly the numeric columns that are not
\* in the metadata list and are not the row_index column; with an empty
\* list, every numeric column but row_index.
C18_AsStated ==
    (rr # None /\ Val(rr).X # None) =>
        LET r == Val(rr)
            meta == IF IsNone(r.metavars) THEN {} ELSE Range(Val(r.metavars))
        IN /\ Val(r.X).n = NRows(r.data)
           /\ Val(r.X).feats
                = FilterSeq(r.data.cols, r.data.num \ (meta \cup {"row_index"}))

-----------------------------------------------------------------------------
(* lib/feature_extraction.py: file names                                    *)

MaxFiles == 2         \* files of one extraction request
MaxFrames == 2        \* frames librosa cuts one file into
MaxVars == 3          \* entries of metavars["variables"]
MaxMfccs == 2         \* n_mfccs of a mel_features request

\* A file name is the list of its parts: words, separator characters and, at
\* the end, the extension with its dot.
Extensions == {".wav", ".WAV", ".Mp3", ".flac", ".txt",
               ".csv", ".CSV", ".tsv", ".xls", ".xlsb", ".xlsx"}
FileNames ==
    { <<"sp01", "_", "s1", ".wav">>, <<"sp02", ".WAV">>,
      <<"sp03", "_", "s1", ".txt">> }

\* os.path.splitext(fn): <<root, ext>>
splitext(fn) ==
    IF Len(fn) > 1 /\ fn[Len(fn)] \in Extensions
    THEN <<SubSeq(fn, 1, Len(fn) - 1), fn[Len(fn)]>>
    ELSE <<fn, "">>

\* str.lower() on an extension
lower(ext) ==
    CASE ext = ".WAV" -> ".wav"
      [] ext = ".Mp3" -> ".mp3"
      [] OTHER        -> ext

\* str.split(split_char): the words between the separators, a word being the
\* list of the parts it is made of
RECURSIVE SplitFrom(_, _, _)
SplitFrom(s, ch, cur) ==
    IF s = <<>> THEN <<cur>>
    ELSE IF Head(s) = ch THEN <<cur>> \o SplitFrom(Tail(s), ch, <<>>)
    ELSE SplitFrom(Tail(s), ch, Append(cur, Head(s)))

split(s, ch) == SplitFrom(s, ch, <<>>)

\* ---- FeatureExtractor._validate_files: the exception raised, "" if none
ALLOWED_EXTENSIONS == {".wav", ".mp3", ".flac"}

validate_filesMutNoCheck(filenames) == ""

validate_files(filenames) ==
    LET bad_files == {i \in DOMAIN filenames :
                         lower(splitext(filenames[i])[2]) \notin ALLOWED_EXTENSIONS}
    IN IF bad_files # {} THEN "ValueError" ELSE ""

\* ---- FeatureExtractor.extract_metadata.  A dict is kept as the list of its
\* keys in insertion order and the mapping from keys to values.
EmptyDict == [keys |-> <<>>, vals |-> <<>>]

\* d[key] of a defaultdict(list), followed by .append(v)
DictAppend(d, key, v) ==
    IF key \in Range(d.keys)
    THEN [d EXCEPT !.vals = [k \in DOMAIN d.vals |->
                               IF d.keys[k] = key THEN Append(d.vals[k], v)
                               ELSE d.vals[k]]]
    ELSE [keys |-> Append(d.keys, key), vals |-> Append(d.vals, <<v>>)]

DictGet(d, key) == d.vals[CHOOSE k \in DOMAIN d.keys : d.keys[k] = key]

\* the for loop of lines 357-359 from position i (1-based) on
RECURSIVE MetadataLoop(_, _, _, _)
MetadataLoop(variables, metadata_f, i, acc) ==
    IF acc.err # "" \/ i > Len(variables) THEN acc
    ELSE IF variables[i] = "-"
         THEN MetadataLoop(variables, metadata_f, i + 1, acc)
         ELSE IF i > Len(metadata_f)
              THEN [acc EXCEPT !.err = "IndexError"]
              ELSE MetadataLoop(variables, metadata_f, i + 1,
                                [acc EXCEPT !.dict = DictAppend(@, variables[i],
                                                                metadata_f[i])])

extract_metadataMutKeepDash(filename, variables, split_char) ==
    LET basename == filename
        toks == split(splitext(basename)[1], split_char)
        looped == IF variables # None
                  THEN MetadataLoop([i \in DOMAIN Val(variables) |->
                                        IF Val(variables)[i] = "-" THEN "session"
                                        ELSE Val(variables)[i]],
                                    toks, 1, [err |-> "", dict |-> EmptyDict])
                  ELSE [err |-> "", dict |-> EmptyDict]
    IN IF looped.err # "" THEN looped
       ELSE [looped EXCEPT !.dict = DictAppend(@, "filename", basename)]

\* extract_metadata(filename, variables, split_char): err is the exception
\* raised, "" if none, dict the returned metadata
extract_metadata(filename, variables, split_char) ==
    LET basename == filename      \* os.path.basename: upload names have no directory
        looped == IF variables # None
                  THEN MetadataLoop(Val(variables),
                                    split(splitext(basename)[1], split_char), 1,
                                    [err |-> "", dict |-> EmptyDict])
                  ELSE [err |-> "", dict |-> EmptyDict]
    IN IF looped.err # "" THEN looped
       ELSE [looped EXCEPT !.dict = DictAppend(@, "filename", basename)]

\* variable lists: None, or names and "-" marks
VarNames == {"speaker", "session", "-"}
VarLists ==
    {None} \cup {Some(v) : v \in UNION {[1..n -> VarNames] : n \in 0..MaxVars}}

MetaCall(filename, variables, split_char) ==
    /\ md = None
    /\ md' = Some([filename |-> filename, variables |-> variables,
                   split_char |-> split_char,
                   ret |-> extract_metadata(filename, variables, split_char)])
    /\ UNCHANGED <<sessionVars, pw, fe, fl, rr, la, pc, dl, iv, dp, po>>

MetaReturn ==
    /\ md # None
    /\ md' = None
    /\ UNCHANGED <<sessionVars, pw, fe, fl, rr, la, pc, dl, iv, dp, po>>

MetaNext ==
    \/ \E fn \in FileNames : \E v \in VarLists : MetaCall(fn, v, "_")
    \/ MetaReturn

SpecMeta == SessionInit /\ [][MetaNext]_vars

\* the number of words the stem of the call's file name splits into
MdTokens == Len(split(splitext(Val(md).filename)[1], Val(md).split_char))

\* C8 as stated: a call whose variable list has more entries than the stem
\* has words raises an error, also when the surplus entries are "-".
C8_AsStated ==
    (md # None /\ Val(md).variables # None
       /\ Len(Val(Val(md).variables)) > MdTokens) => Val(md).ret.err # ""

\* the tokens at the positions of `variables` that hold `name`, from position
\* i on
RECURSIVE TokensOf(_, _, _, _)
TokensOf(variables, toks, name, i) ==
    IF i > Len(variables) THEN <<>>
    ELSE (IF variables[i] = name THEN <<toks[i]>> ELSE <<>>)
         \o TokensOf(variables, toks, name, i + 1)

-----------------------------------------------------------------------------
(* lib/feature_extraction.py: feature labels                                *)

\* n_mfccs of the request in the repository's tests
TestMfccs == 10

\* feature_methods is a dict: the list of its <<method, args>> items in
\* insertion order.  args of mel_features: every key is optional (None: the
\* key is absent).  args of speaker_embeddings: n_features, optional.
MfccChoices == {None} \cup {Some(n) : n \in (1..MaxMfccs) \cup {TestMfccs}}
Flag == {None, Some(FALSE), Some(TRUE)}
MelArgs ==
    [n_mfccs : MfccChoices, n_mels : {None}, delta : Flag, delta_delta : Flag,
     summarise : Flag]
SpkArgs == [n_features : {None, Some(2)}]

\* "key" in args and args["key"]
IsSet(x) == x # None /\ Val(x)

\* [f"{prefix}{i + 1}" for i in range(n)]
Numbered(prefix, n) == [i \in 1..n |-> prefix \o ToString(i)]

\* [f"{label}{suffix}" for label in labels]
Suffixed(labels, suffix) == [i \in DOMAIN labels |-> labels[i] \o suffix]

\* the labels of one item of feature_methods (lines 387-407): err is the
\* exception raised, "" if none
method_labelsMutStdFirst(method, args) ==
    IF method = "mel_features"
    THEN IF args.n_mfccs = None THEN [err |-> "KeyError", labels |-> <<>>]
         ELSE LET n == Val(args.n_mfccs)
                  tmp == Numbered("c", n)
                         \o (IF IsSet(args.delta) THEN Numbered("d", n) ELSE <<>>)
                         \o (IF IsSet(args.delta_delta) THEN Numbered("dd", n) ELSE <<>>)
              IN [err |-> "",
                  labels |-> IF IsSet(args.summarise)
                             THEN Suffixed(tmp, "_std") \o Suffixed(tmp, "_mean")
                             ELSE tmp]
    ELSE IF method = "speaker_embeddings"
    THEN IF args.n_features = None THEN [err |-> "KeyError", labels |-> <<>>]
         ELSE [err |-> "", labels |-> Numbered("X", Val(args.n_features))]
    ELSE [err |-> "ValueError", labels |-> <<>>]

method_labels(method, args) ==
    IF method = "mel_features"
    THEN IF args.n_mfccs = None THEN [err |-> "KeyError", labels |-> <<>>]
         ELSE LET n == Val(args.n_mfccs)
                  tmp_feature_labels ==
                      Numbered("c", n)
                      \o (IF IsSet(args.delta) THEN Numbered("d", n) ELSE <<>>)
                      \o (IF IsSet(args.delta_delta) THEN Numbered("dd", n) ELSE <<>>)
              IN [err |-> "",
                  labels |-> IF IsSet(args.summarise)
                             THEN Suffixed(tmp_feature_labels, "_mean")
                                  \o Suffixed(tmp_feature_labels, "_std")
                             ELSE tmp_feature_labels]
    ELSE IF method = "speaker_embeddings"
    THEN IF args.n_features = None THEN [err |-> "KeyError", labels |-> <<>>]
         ELSE [err |-> "", labels |-> Numbered("X", Val(args.n_features))]
    ELSE [err |-> "ValueError", labels |-> <<>>]

\* add_feature_labels(feature_methods): the loop over the items
RECURSIVE LabelsLoop(_, _)
LabelsLoop(items, acc) ==
    IF acc.err # "" \/ items = <<>> THEN acc
    ELSE LET one == method_labels(Head(items)[1], Head(items)[2])
         IN IF one.err # "" THEN [acc EXCEPT !.err = one.err]
            ELSE LabelsLoop(Tail(items), [acc EXCEPT !.labels = @ \o one.labels])

add_feature_labels(feature_methods) ==
    LabelsLoop(feature_methods, [err |-> "", labels |-> <<>>])

\* requests: mel_features alone, speaker_embeddings alone, an unknown method,
\* mel_features followed by speaker_embeddings
LabelRequests ==
    {<< <<"mel_features", a>> >> : a \in MelArgs}
    \cup {<< <<"speaker_embeddings", a>> >> : a \in SpkArgs}
    \cup {<< <<"lpc_features", [n_features |-> None]>> >>}
    \cup {<< <<"mel_features", a>>, <<"speaker_embeddings", b>> >> :
             a \in {m \in MelArgs : m.n_mfccs = Some(1)}, b \in SpkArgs}

LabelsCall(feature_methods) ==
    /\ fl = None
    /\ fl' = Some([feature_methods |-> feature_methods,
                   ret |-> add_feature_labels(feature_methods)])
    /\ UNCHANGED <<sessionVars, pw, fe, md, rr, la, pc, dl, iv, dp, po>>

LabelsReturn ==
    /\ fl # None
    /\ fl' = None
    /\ UNCHANGED <<sessionVars, pw, fe, md, rr, la, pc, dl, iv, dp, po>>

LabelsNext ==
    \/ \E r \in LabelRequests : LabelsCall(r)
    \/ LabelsReturn

SpecLabels == SessionInit /\ [][LabelsNext]_vars

\* the call is for mel_features alone, with n_mfccs given
MelAlone ==
    /\ fl # None /\ Len(Val(fl).feature_methods) = 1
    /\ Val(fl).feature_methods[1][1] = "mel_features"
    /\ Val(fl).feature_methods[1][2].n_mfccs # None

-----------------------------------------------------------------------------
(* lib/feature_extraction.py: the FeatureExtractor object                   *)

\* defaults of mel_features (lines 171-172) and the width of an embedding
DefaultMfccs == 13
DefaultMels == 40
EmbeddingDim == 2

\* A payload 'data:audio/wav;base64,XXX': whether it holds the "," that
\* fb.split(",", 1) unpacks at, and the number of frames of the audio
Payloads == [comma : BOOLEAN, frames : 1..MaxFrames]

\* arrays are kept as their shape: <<n>> or <<rows, columns>>

\* mel_features(audio, sr, **args)
mel_features(frames, args) ==
    LET n_mels == IF args.n_mels = None THEN DefaultMels ELSE Val(args.n_mels)
        asked == IF args.n_mfccs = None THEN DefaultMfccs ELSE Val(args.n_mfccs)
        n_mfccs == IF asked > n_mels THEN n_mels ELSE asked
        blocks == 1 + (IF IsSet(args.delta) THEN 1 ELSE 0)
                    + (IF IsSet(args.delta_delta) THEN 1 ELSE 0)
    IN IF IsSet(args.summarise) THEN [err |-> "", shape |-> <<2 * n_mfccs * blocks>>]
       ELSE [err |-> "", shape |-> <<frames, n_mfccs * blocks>>]

\* speaker_embeddings(audio, model): process_files passes **args, and
\* n_features is no parameter of the method
speaker_embeddings(args) ==
    IF args.n_features # None THEN [err |-> "TypeError", shape |-> <<>>]
    ELSE [err |-> "", shape |-> <<1, EmbeddingDim>>]

\* np.concatenate(arrays, axis=0) on shapes
RECURSIVE ConcatShapes(_)
ConcatShapes(shapes) ==
    IF shapes = <<>> THEN [err |-> "ValueError", shape |-> <<>>]
    ELSE IF Len(shapes) = 1 THEN [err |-> "", shape |-> shapes[1]]
    ELSE LET rest == ConcatShapes(Tail(shapes))
             a == Head(shapes)
         IN IF rest.err # "" THEN rest
            ELSE IF Len(a) # Len(rest.shape) THEN [err |-> "ValueError", shape |-> <<>>]
            ELSE IF Len(a) = 2 /\ a[2] # rest.shape[2]
                 THEN [err |-> "ValueError", shape |-> <<>>]
            ELSE [err |-> "",
                  shape |-> [rest.shape EXCEPT ![1] = a[1] + rest.shape[1]]]

\* the inner loop of process_files over the methods (lines 471-481)
RECURSIVE MethodShapes(_, _)
MethodShapes(items, frames) ==
    IF items = <<>> THEN [err |-> "", shapes |-> <<>>]
    ELSE LET method == Head(items)[1]
             args == Head(items)[2]
             one == IF method = "mel_features" THEN mel_features(frames, args)
                    ELSE speaker_embeddings(args)
             rest == MethodShapes(Tail(items), frames)
         IN IF one.err # "" THEN [err |-> one.err, shapes |-> <<>>]
            ELSE IF rest.err # "" THEN rest
            ELSE [err |-> "", shapes |-> <<one.shape>> \o rest.shapes]

\* features_f of one file: concatenated, a vector reshaped to one row
features_of_file(items, frames) ==
    LET each == MethodShapes(items, frames)
        cat == ConcatShapes(each.shapes)
    IN IF each.err # "" THEN [err |-> each.err, shape |-> <<>>]
       ELSE IF cat.err # "" THEN cat
       ELSE IF Len(cat.shape) = 1 THEN [err |-> "", shape |-> <<1, cat.shape[1]>>]
       ELSE cat

\* value * n for a list
RECURSIVE Repeat(_, _)
Repeat(value, n) == IF n = 0 THEN <<>> ELSE value \o Repeat(value, n - 1)

\* metadata[key].extend(value * features_f.shape[0]) for every item of metadata_f
RECURSIVE ExtendAll(_, _, _, _)
ExtendAll(metadata, metadata_f, k, n) ==
    IF k > Len(metadata_f.keys) THEN metadata
    ELSE LET key == metadata_f.keys[k]
             more == Repeat(metadata_f.vals[k], n)
             grown == IF key \in Range(metadata.keys)
                      THEN [metadata EXCEPT !.vals =
                              [j \in DOMAIN metadata.vals |->
                                 IF metadata.keys[j] = key
                                 THEN metadata.vals[j] \o more
                                 ELSE metadata.vals[j]]]
                      ELSE [keys |-> Append(metadata.keys, key),
                            vals |-> Append(metadata.vals, more)]
         IN ExtendAll(grown, metadata_f, k + 1, n)

\* ---- the requests an extractor is built for
NameLists == UNION {[1..n -> FileNames] : n \in 0..MaxFiles}
PayloadPool ==
    {[comma |-> TRUE, frames |-> f] : f \in 1..MaxFrames}
    \cup {[comma |-> FALSE, frames |-> 1]}
PayloadLists == UNION {[1..n -> PayloadPool] : n \in 0..MaxFiles}

NoMelArgs ==
    [n_mfccs |-> None, n_mels |-> None, delta |-> None, delta_delta |-> None,
     summarise |-> None]
ExtractMethods ==
    { << <<"mel_features", [NoMelArgs EXCEPT !.n_mfccs = Some(1),
                                             !.summarise = Some(TRUE)]>> >>,
      << <<"mel_features", [NoMelArgs EXCEPT !.n_mfccs = Some(1),
                                             !.delta = Some(TRUE)]>> >>,
      << <<"mel_features", [NoMelArgs EXCEPT !.n_mfccs = Some(MaxMfccs),
                                             !.n_mels = Some(1),
                                             !.delta = Some(TRUE)]>> >>,
      << <<"speaker_embeddings", [n_features |-> Some(2)]>> >> }

\* metavars: the keys the dict has, and their values
ExtractMetavars ==
    {[has |-> {"variables", "split_char"}, variables |-> v, split_char |-> "_"] :
        v \in {None, Some(<<"speaker", "-">>), Some(<<"speaker", "speaker">>)}}
    \cup {[has |-> {}, variables |-> None, split_char |-> "_"]}

\* ---- FeatureExtractor.__init__ (lines 79-124)
Construct(filenames, filebytes, feature_methods, metavars) ==
    /\ fe = None
    /\ fe' = Some([filenames |-> filenames, filebytes |-> filebytes,
                   feature_methods |-> feature_methods, metavars |-> metavars,
                   pc |-> "length", decoded |-> 0, err |-> "",
                   k |-> 0, labels |-> <<>>, shapes |-> <<>>,
                   metadata |-> EmptyDict, rows |-> 0, columns |-> <<>>])
    /\ UNCHANGED <<sessionVars, pw, md, fl, rr, la, pc, dl, iv, dp, po>>

\* if len(filenames) != len(filebytes): raise ValueError
init_length ==
    /\ fe # None /\ Val(fe).pc = "length"
    /\ IF Len(Val(fe).filenames) # Len(Val(fe).filebytes)
       THEN fe' = Some([Val(fe) EXCEPT !.pc = "raised", !.err = "ValueError"])
       ELSE fe' = Some([Val(fe) EXCEPT !.pc = "validate"])
    /\ UNCHANGED <<sessionVars, pw, md, fl, rr, la, pc, dl, iv, dp, po>>

\* FeatureExtractor._validate_files(filenames)
init_validate ==
    /\ fe # None /\ Val(fe).pc = "validate"
    /\ LET e == validate_files(Val(fe).filenames)
       IN IF e # ""
          THEN fe' = Some([Val(fe) EXCEPT !.pc = "raised", !.err = e])
          ELSE fe' = Some([Val(fe) EXCEPT !.pc = "decode"])
    /\ UNCHANGED <<sessionVars, pw, md, fl, rr, la, pc, dl, iv, dp, po>>

\* _decode_filebytes: one turn of the loop over filebytes; decoded counts
\* the turns entered
decode_next ==
    /\ fe # None /\ Val(fe).pc = "decode"
    /\ Val(fe).decoded < Len(Val(fe).filebytes)
    /\ LET fb == Val(fe).filebytes[Val(fe).decoded + 1]
       IN IF ~fb.comma
          THEN \* header, b64 = fb.split(",", 1)
               fe' = Some([Val(fe) EXCEPT !.decoded = @ + 1, !.pc = "raised",
                                          !.err = "ValueError"])
          ELSE fe' = Some([Val(fe) EXCEPT !.decoded = @ + 1])
    /\ UNCHANGED <<sessionVars, pw, md, fl, rr, la, pc, dl, iv, dp, po>>

decode_done ==
    /\ fe # None /\ Val(fe).pc = "decode"
    /\ Val(fe).decoded = Len(Val(fe).filebytes)
    /\ fe' = Some([Val(fe) EXCEPT !.pc = "ready"])
    /\ UNCHANGED <<sessionVars, pw, md, fl, rr, la, pc, dl, iv, dp, po>>

\* ---- process_files (lines 438-509)
\* feature_labels = FeatureExtractor.add_feature_labels(...)
process_begin ==
    /\ fe # None /\ Val(fe).pc = "ready"
    /\ LET l == add_feature_labels(Val(fe).feature_methods)
       IN IF l.err # ""
          THEN fe' = Some([Val(fe) EXCEPT !.pc = "raised", !.err = l.err])
          ELSE fe' = Some([Val(fe) EXCEPT !.pc = "files", !.labels = l.labels])
    /\ UNCHANGED <<sessionVars, pw, md, fl, rr, la, pc, dl, iv, dp, po>>

\* one turn of the loop over zip(self.filenames, self.decoded_files)
process_file ==
    /\ fe # None /\ Val(fe).pc = "files"
    /\ Val(fe).k < Len(Val(fe).filenames)
    /\ LET o == Val(fe)
           fn == o.filenames[o.k + 1]
           mv == o.metavars
           metadata_f ==
               extract_metadata(fn,
                   IF "variables" \in mv.has THEN mv.variables ELSE None,
                   IF "split_char" \in mv.has THEN mv.split_char ELSE "_")
           features_f == features_of_file(o.feature_methods,
                                          o.filebytes[o.k + 1].frames)
       IN IF metadata_f.err # ""
          THEN fe' = Some([o EXCEPT !.pc = "raised", !.err = metadata_f.err])
          ELSE IF features_f.err # ""
          THEN fe' = Some([o EXCEPT !.pc = "raised", !.err = features_f.err])
          ELSE fe' = Some([o EXCEPT
                  !.k = @ + 1,
                  !.shapes = Append(@, features_f.shape),
                  !.metadata = ExtendAll(@, metadata_f.dict, 1, features_f.shape[1])])
    /\ UNCHANGED <<sessionVars, pw, md, fl, rr, la, pc, dl, iv, dp, po>>

\* features = np.concatenate(features, axis=0);
\* features_dict = dict(zip(feature_labels, features.T))
process_end ==
    /\ fe # None /\ Val(fe).pc = "files"
    /\ Val(fe).k = Len(Val(fe).filenames)
    /\ LET o == Val(fe)
           features == ConcatShapes(o.shapes)
       IN IF features.err # ""
          THEN fe' = Some([o EXCEPT !.pc = "raised", !.err = features.err])
          ELSE LET n == IF Len(o.labels) < features.shape[2] THEN Len(o.labels)
                        ELSE features.shape[2]
               IN fe' = Some([o EXCEPT !.pc = "done",
                                       !.rows = features.shape[1],
                                       !.columns = SubSeq(o.labels, 1, n)])
    /\ UNCHANGED <<sessionVars, pw, md, fl, rr, la, pc, dl, iv, dp, po>>

\* the caller drops the object, or the exception has left the constructor
Discard ==
    /\ fe # None /\ Val(fe).pc \in {"raised", "done"}
    /\ fe' = None
    /\ UNCHANGED <<sessionVars, pw, md, fl, rr, la, pc, dl, iv, dp, po>>

ExtractNext ==
    \/ fe = None
       /\ \E fns \in NameLists : \E fbs \in PayloadLists :
            \E fm \in ExtractMethods : \E mv \in ExtractMetavars :
               Construct(fns, fbs, fm, mv)
    \/ init_length
    \/ init_validate
    \/ decode_next
    \/ decode_done
    \/ process_begin
    \/ process_file
    \/ process_end
    \/ Discard

SpecExtract == SessionInit /\ [][ExtractNext]_vars

\* the request breaks a precondition of the constructor
BreaksPrecondition ==
    \/ Len(Val(fe).filenames) # Len(Val(fe).filebytes)
    \/ \E i \in DOMAIN Val(fe).filenames :
          LET fn == Val(fe).filenames[i]
          IN fn[Len(fn)] \notin {".wav", ".WAV", ".mp3", ".Mp3", ".flac"}

\* C7: on a request with lists of different length, or with a file name whose
\* extension, case ignored, is none of .wav, .mp3, .flac, the constructor
\* raises and no payload is ever decoded.
C7_FailFast ==
    (fe # None /\ BreaksPrecondition) =>
        /\ Val(fe).decoded = 0
        /\ Val(fe).pc \in {"length", "validate", "raised"}
        /\ Val(fe).pc = "raised" => Val(fe).err = "ValueError"

\* a request of as many names as payloads, one name ending in .txt, has been
\* refused with nothing decoded
C7_Witness ==
    /\ fe # None /\ Val(fe).pc = "raised" /\ Val(fe).decoded = 0
    /\ Len(Val(fe).filenames) = Len(Val(fe).filebytes)
    /\ \E i \in DOMAIN Val(fe).filenames :
          Val(fe).filenames[i][Len(Val(fe).filenames[i])] = ".txt"

\* rows one file contributes: its frames, or one when every method summarises
FileRows(o, i) ==
    IF \A m \in DOMAIN o.feature_methods : IsSet(o.feature_methods[m][2].summarise)
    THEN 1 ELSE o.filebytes[i].frames

RECURSIVE SumRows(_, _)
SumRows(o, n) == IF n = 0 THEN 0 ELSE SumRows(o, n - 1) + FileRows(o, n)

\* C10 as stated: what process_files returns for a valid request has feature
\* columns and metadata columns of one and the same length, the sum of the
\* rows of the files.
C10_AsStated ==
    (fe # None /\ Val(fe).pc = "done") =>
        LET o == Val(fe)
            R == SumRows(o, Len(o.filenames))
        IN /\ o.rows = R
           /\ \A j \in DOMAIN o.metadata.vals : Len(o.metadata.vals[j]) = R

\* C28 as stated: whenever process_files returns, add_feature_labels has
\* produced as many labels as feature columns were computed, and every label
\* is a key of the returned dictionary; this includes mel_features asked for
\* more coefficients than Mel bands.
C28_AsStated ==
    (fe # None /\ Val(fe).pc = "done") =>
        LET o == Val(fe)
            features == ConcatShapes(o.shapes)
        IN /\ Len(o.labels) = features.shape[2]
           /\ o.columns = o.labels

-----------------------------------------------------------------------------
(* lib/feature_extraction.py: FeatureExtractor._load_audio                  *)

MaxDur == 5           \* length of an audio file, in hundredths of a second

\* the rate speaker_embeddings audio is resampled to (line 433-434)
TargetRate == 16000

\* An audio file: its sample rate, its channels and its length.  A signal is
\* kept as its rate, its channels and its samples per channel.
SampleRates == {8000, TargetRate, 22050, 44100}
AudioFiles == [sr : SampleRates, channels : {1, 2}, dur : 1..MaxDur]
Samples(f) == (f.dur * f.sr) \div 100

\* librosa.load(audio_file, sr=None): the native rate, mixed down to mono
librosa_load(f) ==
    <<[rate |-> f.sr, channels |-> 1, n |-> Samples(f)], f.sr>>

\* torchaudio.load(audio_file): a (channels, frames) tensor and the rate
torchaudio_load(f) ==
    <<[rate |-> f.sr, channels |-> f.channels, n |-> Samples(f)], f.sr>>

\* torchaudio.functional.resample(sig, orig_freq, new_freq)
resample(sig, orig_freq, new_freq) ==
    [sig EXCEPT !.rate = new_freq,
                !.n = (new_freq * sig.n + orig_freq - 1) \div orig_freq]

\* _load_audio(audio_file, method): the returned pair, None when the method
\* is neither of the two (the function falls off its end)
load_audio(audio_file, method) ==
    IF method = "mel_features" THEN Some(librosa_load(audio_file))
    ELSE IF method = "speaker_embeddings"
    THEN LET loaded == torchaudio_load(audio_file)
             sig == loaded[1]
             sr == loaded[2]
         IN IF sr # TargetRate
            THEN Some(<<resample(sig, sr, TargetRate), sr>>)
            ELSE Some(<<sig, sr>>)
    ELSE None

LoadCall(audio_file, method) ==
    /\ la = None
    /\ la' = Some([audio_file |-> audio_file, method |-> method,
                   ret |-> load_audio(audio_file, method)])
    /\ UNCHANGED <<sessionVars, pw, fe, md, fl, rr, pc, dl, iv, dp, po>>

LoadReturn ==
    /\ la # None
    /\ la' = None
    /\ UNCHANGED <<sessionVars, pw, fe, md, fl, rr, pc, dl, iv, dp, po>>

LoadNext ==
    \/ \E f \in AudioFiles :
         \E m \in {"mel_features", "speaker_embeddings", "lpc_features"} :
            LoadCall(f, m)
    \/ LoadReturn

SpecLoad == SessionInit /\ [][LoadNext]_vars

\* C16 as stated: for speaker_embeddings the call returns the signal at
\* 16 kHz together with the rate 16000, whatever the rate of the file; for
\* mel_features it returns the signal at the file's rate together with that
\* rate.
C16_AsStated ==
    (la # None /\ Val(la).ret # None) =>
        LET f == Val(la).audio_file
            sig == Val(Val(la).ret)[1]
            sr == Val(Val(la).ret)[2]
        IN /\ Val(la).method = "speaker_embeddings"
                => sig.rate = TargetRate /\ sr = TargetRate
           /\ Val(la).method = "mel_features"
                => sig.rate = f.sr /\ sr = f.sr

-----------------------------------------------------------------------------
(* FeatureExtractor as the loader uses it: the constructor and              *)
(* process_files as functions of the request                                *)

\* FeatureExtractor(...): the exception __init__ raises, "" if none
extractor_init(filenames, filebytes) ==
    IF Len(filenames) # Len(filebytes) THEN "ValueError"
    ELSE IF validate_files(filenames) # "" THEN validate_files(filenames)
    ELSE IF \E i \in DOMAIN filebytes : ~filebytes[i].comma THEN "ValueError"
    ELSE ""

\* the loop of process_files over the files, from file k on
RECURSIVE FilesLoop(_, _, _)
FilesLoop(o, k, acc) ==
    IF acc.err # "" \/ k > Len(o.filenames) THEN acc
    ELSE LET mv == o.metavars
             metadata_f ==
                 extract_metadata(o.filenames[k],
                     IF "variables" \in mv.has THEN mv.variables ELSE None,
                     IF "split_char" \in mv.has THEN mv.split_char ELSE "_")
             features_f == features_of_file(o.feature_methods, o.filebytes[k].frames)
         IN IF metadata_f.err # "" THEN [acc EXCEPT !.err = metadata_f.err]
            ELSE IF features_f.err # "" THEN [acc EXCEPT !.err = features_f.err]
            ELSE FilesLoop(o, k + 1,
                    [acc EXCEPT !.shapes = Append(@, features_f.shape),
                                !.metadata = ExtendAll(@, metadata_f.dict, 1,
                                                       features_f.shape[1])])

\* fe.process_files(): err is the exception raised, "" if none; rows and
\* columns describe features_dict, metadata is the metadata dict
process_files(o) ==
    LET l == add_feature_labels(o.feature_methods)
        looped == FilesLoop(o, 1, [err |-> "", shapes |-> <<>>,
                                   metadata |-> EmptyDict])
        features == ConcatShapes(looped.shapes)
        failed(e) == [err |-> e, rows |-> 0, columns |-> <<>>, metadata |-> EmptyDict]
    IN IF l.err # "" THEN failed(l.err)
       ELSE IF looped.err # "" THEN failed(looped.err)
       ELSE IF features.err # "" THEN failed(features.err)
       ELSE LET n == IF Len(l.labels) < features.shape[2] THEN Len(l.labels)
                     ELSE features.shape[2]
            IN [err |-> "", rows |-> features.shape[1],
                columns |-> SubSeq(l.labels, 1, n), metadata |-> looped.metadata]

-----------------------------------------------------------------------------
(* lib/data_loader.py                                                       *)

\* What a parser call comes to: raised is the exception that left the
\* function, "" if it returned; ret is the returned tuple
Returned(data, alert) == [raised |-> "", ret |-> <<data, alert>>]
Raised(e) == [raised |-> e, ret |-> <<>>]

\* Upload contents "data:<type>;base64,<b64>": the number of "," it holds and
\* whether base64.b64decode accepts the part after the ","
TableContents == [commas : {0, 1, 2}, b64 : BOOLEAN]
TableFileNames ==
    { <<"data", e>> : e \in {".csv", ".CSV", ".tsv", ".xlsx", ".txt"} }

\* parse_table_contents(contents, filename).  read is what the polars reader
\* gives for the decoded bytes (None: it raises), dicts_ok whether
\* data_table.to_dicts() returns.
parse_table_contents(contents, filename, read, dicts_ok) ==
    \* contents_type, content_string = contents.split(",")
    IF contents.commas # 1 THEN Raised("ValueError")
    \* decoded = base64.b64decode(content_string)
    ELSE IF ~contents.b64 THEN Raised("binascii.Error")
    ELSE LET ext == splitext(filename)[2]
         IN IF ext \notin {".csv", ".tsv", ".xls", ".xlsb", ".xlsx"}
            THEN Returned(None, Some("alert"))
            ELSE IF read = None THEN Returned(None, Some("alert"))
            ELSE IF ~dicts_ok THEN Returned(None, Some("alert"))
            ELSE Returned(read, None)

\* pl.DataFrame(metadata | features): the columns of the frame, a feature
\* column replacing a metadata column of the same name; the constructor
\* raises when the columns are not of one length
FrameCols(res) ==
    res.metadata.keys
    \o SelectSeq(res.columns, LAMBDA c : c \notin Range(res.metadata.keys))

FrameFails(res) ==
    \E j \in DOMAIN res.metadata.keys :
       /\ res.metadata.keys[j] \notin Range(res.columns)
       /\ Len(res.metadata.vals[j]) # res.rows

\* parse_audio_contents(contents, filenames, feature_extraction_args,
\* metavars).  frame_ok and dicts_ok: whether polars builds the frame and
\* serialises it when nothing in the data prevents it.
parse_audio_contents(contents, filenames, feature_extraction_args, metavars, frame_ok, dicts_ok) ==
    LET o == [filenames |-> filenames, filebytes |-> contents,
              feature_methods |-> feature_extraction_args, metavars |-> metavars]
        res == process_files(o)
    IN IF extractor_init(filenames, contents) # "" THEN Returned(None, Some("alert"))
       ELSE IF res.err # "" THEN Returned(None, Some("alert"))
       \* the except clause of lines 95-100 builds an alert and goes on:
       \* data_table is unbound, data_table.to_dicts() raises inside the
       \* next try
       ELSE IF ~frame_ok \/ FrameFails(res) THEN Returned(None, Some("alert"))
       ELSE IF ~dicts_ok THEN Returned(None, Some("alert"))
       ELSE Returned(Some([cols |-> FrameCols(res), n |-> res.rows]), None)

ParseTableCall(contents, filename, read, dicts_ok) ==
    /\ pc = None
    /\ pc' = Some([fn |-> "parse_table_contents", filename |-> filename,
                   contents |-> contents,
                   out |-> parse_table_contents(contents, filename, read, dicts_ok)])
    /\ UNCHANGED <<sessionVars, pw, fe, md, fl, rr, la, dl, iv, dp, po>>

ParseAudioCall(contents, filenames, args, metavars, frame_ok, dicts_ok) ==
    /\ pc = None
    /\ pc' = Some([fn |-> "parse_audio_contents", filename |-> filenames,
                   contents |-> contents,
                   out |-> parse_audio_contents(contents, filenames, args, metavars,
                                                frame_ok, dicts_ok)])
    /\ UNCHANGED <<sessionVars, pw, fe, md, fl, rr, la, dl, iv, dp, po>>

ParseReturn ==
    /\ pc # None
    /\ pc' = None
    /\ UNCHANGED <<sessionVars, pw, fe, md, fl, rr, la, dl, iv, dp, po>>

ParseNext ==
    \/ pc = None
       /\ \E c \in TableContents : \E fn \in TableFileNames :
            \E read \in {None} \cup {Some(t) : t \in UploadTables} :
               \E ok \in BOOLEAN : ParseTableCall(c, fn, read, ok)
    \/ pc = None
       /\ \E fns \in NameLists : \E fbs \in PayloadLists :
            \E fm \in ExtractMethods : \E mv \in ExtractMetavars :
               \E f_ok \in BOOLEAN : \E d_ok \in BOOLEAN :
                  ParseAudioCall(fbs, fns, fm, mv, f_ok, d_ok)
    \/ ParseReturn

SpecParse == SessionInit /\ [][ParseNext]_vars

\* C17 as stated: neither parser raises, and what it returns is a pair with
\* exactly one component that is not None.
C17_AsStated ==
    pc # None =>
        /\ Val(pc).out.raised = ""
        /\ Len(Val(pc).out.ret) = 2
        /\ (Val(pc).out.ret[1] = None) # (Val(pc).out.ret[2] = None)

-----------------------------------------------------------------------------
(* Downloads of the selection: download_selected (table_preview.py 308-380) *)
(* and download_selected_reduced (plot_layout.py 705-736)                   *)

\* what the stores can hold when a download button is clicked
DownloadTables == {None} \cup {Some(t) : t \in UploadTables}
DownloadReduced ==
    {None} \cup
    {Some(reconstruct_reduced_data(ReducedMatrix(NRows(t), k), t,
                                   Some(<<"row_index", "speaker">>)).table) :
        t \in UploadTables, k \in Dimensions}
DownloadSelections ==
    {None} \cup {Some(r) : r \in Arrangements(0..(MaxRows - 1))}
DownloadLogs == {None, Some("logs")}

\* pd.DataFrame(data): None and [] both give the empty frame
DataFrameRows(data) == IF IsNone(data) THEN <<>> ELSE Val(data).rows

\* df.iloc[positions]: the rows at the positions, in the order of the list;
\* a position outside the frame raises IndexError
iloc(rows, positions) ==
    IF \E i \in DOMAIN positions : positions[i] \notin 0..(Len(rows) - 1)
    THEN [err |-> "IndexError", rows |-> <<>>]
    ELSE [err |-> "", rows |-> [i \in DOMAIN positions |-> rows[positions[i] + 1]]]

\* dcc.send_data_frame(df.to_csv, filename)
send_data_frame(rows, filename) == Some([filename |-> filename, rows |-> rows])

NoSelected(selectedobservations) ==
    IsNone(selectedobservations) \/ Len(Val(selectedobservations)) = 0

download_selected(data_table, reduced_data_table, logs, selectedobservations) ==
    LET sel_full == iloc(DataFrameRows(data_table), Val(selectedobservations))
        full == IF NoSelected(selectedobservations)
                THEN [out |-> None, alert |-> "No observations selected"]
                ELSE IF sel_full.err # ""
                THEN [out |-> None, alert |-> "Error downloading data"]
                ELSE [out |-> send_data_frame(sel_full.rows, "selected_data_table.csv"),
                      alert |-> ""]
        sel_red == iloc(DataFrameRows(reduced_data_table), Val(selectedobservations))
        red == IF ~TruthyTable(reduced_data_table) THEN [out |-> None, alert |-> full.alert]
               ELSE IF NoSelected(selectedobservations)
               THEN [out |-> None, alert |-> full.alert]
               ELSE IF sel_red.err # ""
               THEN [out |-> None, alert |-> "Error downloading reduced data"]
               ELSE [out |-> send_data_frame(sel_red.rows,
                                             "selected_data_table_reduced.csv"),
                     alert |-> full.alert]
    IN [full |-> full.out, reduced |-> red.out,
        logs |-> IF IsNone(logs) THEN None ELSE logs,
        alert |-> red.alert]

download_selected_reduced(data_table, selectedobservations) ==
    LET sel == iloc(DataFrameRows(data_table), Val(selectedobservations))
    IN IF NoSelected(selectedobservations)
       THEN [reduced |-> None, alert |-> "No observations selected"]
       ELSE IF sel.err # ""
       THEN [reduced |-> None, alert |-> "Error downloading data"]
       ELSE [reduced |-> send_data_frame(sel.rows, "reduced_selected_data_table.csv"),
             alert |-> ""]

\* a click on "download-selected-btn"
DownloadSelectedClick(data_table, reduced_data_table, logs, selectedobservations) ==
    /\ dl = None
    /\ dl' = Some([cb |-> "download_selected", data_table |-> data_table,
                   reduced |-> reduced_data_table, sel |-> selectedobservations,
                   out |-> download_selected(data_table, reduced_data_table, logs,
                                             selectedobservations)])
    /\ UNCHANGED <<sessionVars, pw, fe, md, fl, rr, la, pc, iv, dp, po>>

\* a click on "download-reduced-selected-btn"
DownloadReducedClick(data_table, selectedobservations) ==
    /\ dl = None
    /\ dl' = Some([cb |-> "download_selected_reduced", data_table |-> None,
                   reduced |-> data_table, sel |-> selectedobservations,
                   out |-> download_selected_reduced(data_table, selectedobservations)])
    /\ UNCHANGED <<sessionVars, pw, fe, md, fl, rr, la, pc, iv, dp, po>>

DownloadDone ==
    /\ dl # None
    /\ dl' = None
    /\ UNCHANGED <<sessionVars, pw, fe, md, fl, rr, la, pc, iv, dp, po>>

\* A reduced table and a selection exist only once a table was promoted; the
\* reduced table can stem from an earlier table, and the selection can hold
\* positions of an earlier table.  The buttons of the plot card are shown
\* once a reduction has succeeded (plot_layout.py 321-322, 455-456).
DownloadNext ==
    \/ dl = None
       /\ \E t \in DownloadTables : \E r \in DownloadReduced :
            \E logs \in DownloadLogs : \E s \in DownloadSelections :
               /\ t = None => (r = None /\ s = None)
               /\ DownloadSelectedClick(t, r, logs, s)
    \/ dl = None
       /\ \E r \in DownloadReduced \ {None} : \E s \in DownloadSelections :
            DownloadReducedClick(r, s)
    \/ DownloadDone

SpecDownload == SessionInit /\ [][DownloadNext]_vars

\* C22 as stated: a download of the selection returns, for the active table
\* and for the reduced table when there is one, a file of exactly the rows
\* at the positions held in "selected-observations", in the order of the
\* list; with an empty or absent selection it returns no table file and the
\* warning "No observations selected".
C22_AsStated ==
    dl # None =>
        LET c == Val(dl)
            want(table) == Some([i \in DOMAIN Val(c.sel) |->
                                   Val(table).rows[Val(c.sel)[i] + 1]])
        IN IF NoSelected(c.sel)
           THEN /\ c.out.reduced = None
                /\ c.cb = "download_selected" => c.out.full = None
                /\ c.out.alert = "No observations selected"
           ELSE /\ (c.cb = "download_selected" /\ c.data_table # None)
                   => /\ c.out.full # None
                      /\ Val(c.out.full).rows = Val(want(c.data_table))
                /\ TruthyTable(c.reduced)
                   => /\ c.out.reduced # None
                      /\ Val(c.out.reduced).rows = Val(want(c.reduced))

-----------------------------------------------------------------------------
(* Delayed form refresh: update_algorithm_parameters                        *)
(* (dimensionality_reduction_opts.py 428-465),                              *)
(* update_feature_extraction_parameters and update_metavars_params          *)
(* (audio_upload/feature_extraction_opts.py 434-538)                        *)

MaxTicks == 2     \* n_intervals is counted up to here; the code reads n_intervals < 1 only

Tick(n) == IF n < MaxTicks THEN n + 1 ELSE n

FeatureAlgorithms == {"mel_features", "speaker_embeddings"}

\* example file names ("" before an upload) and separators the user types
ExampleFiles == {<<>>, <<"a", "_", "b", ".", "w">>, <<"a", "-", "b">>}
MetaSeparators == {<<"_">>, <<"-">>, <<>>}

\* example_str.rsplit(".", 1)[0]
RECURSIVE rsplit_stem(_)
rsplit_stem(str) ==
    IF "." \notin Range(str) THEN str
    ELSE IF str[Len(str)] = "." THEN SubSeq(str, 1, Len(str) - 1)
    ELSE rsplit_stem(SubSeq(str, 1, Len(str) - 1))

\* str.split(sep) for a separator of one character
RECURSIVE split_on(_, _, _)
split_on(str, c, tok) ==
    IF str = <<>> THEN <<tok>>
    ELSE IF Head(str) = c THEN <<tok>> \o split_on(Tail(str), c, <<>>)
    ELSE split_on(Tail(str), c, Append(tok, Head(str)))

\* _split_example_file(sep, example_str); str.split("") raises ValueError
split_example_file(sep, example_str) ==
    IF sep = <<>> THEN [err |-> "ValueError", tokens |-> <<>>]
    ELSE [err |-> "", tokens |-> split_on(rsplit_stem(example_str), sep[1], <<>>)]

\* the children update_metavars_params builds for a file name and a separator
MetavarsForm(file, sep) ==
    [kind |-> "form", tokens |-> split_example_file(sep, file).tokens]

\* update_algorithm_parameters, triggered by trigger_id; c is the container
update_algorithm_parameters(c, trigger_id) ==
    IF trigger_id = "dim-reduction-algorithm"
    THEN [c EXCEPT !.shown = "loading", !.disabled = FALSE]
    ELSE IF c.n < 1 THEN c
    ELSE [c EXCEPT !.shown = c.value, !.disabled = TRUE]

update_feature_extraction_parameters(c, trigger_id) ==
    IF trigger_id = "feature-extraction-algorithm"
    THEN [c EXCEPT !.shown = "loading", !.disabled = FALSE]
    ELSE IF c.n < 1 THEN c
    ELSE IF c.value \in FeatureAlgorithms
    THEN [c EXCEPT !.shown = c.value, !.disabled = TRUE]
    ELSE [c EXCEPT !.shown = "alert", !.disabled = TRUE]

update_metavars_params(c, trigger_id) ==
    IF trigger_id = "metavars-separator"
    THEN [c EXCEPT !.shown = [kind |-> "loading", tokens |-> <<>>], !.disabled = FALSE]
    ELSE IF split_example_file(c.sep, c.file).err # ""
    THEN [c EXCEPT !.shown = [kind |-> "alert", tokens |-> <<>>], !.disabled = FALSE]
    ELSE [c EXCEPT !.shown = MetavarsForm(c.file, c.sep), !.disabled = TRUE]

\* the user picks another algorithm in "dim-reduction-algorithm"
SelectAlgorithm(a) ==
    /\ a # iv.dr.value
    /\ iv' = [iv EXCEPT !.dr = update_algorithm_parameters(
                                  [iv.dr EXCEPT !.value = a], "dim-reduction-algorithm")]
    /\ UNCHANGED <<sessionVars, pw, fe, md, fl, rr, la, pc, dl, dp, po>>

\* "algorithm-parameters-delayed-update" fires: n_intervals grows
TickAlgorithm ==
    /\ ~iv.dr.disabled
    /\ iv' = [iv EXCEPT !.dr = update_algorithm_parameters(
                                  [iv.dr EXCEPT !.n = Tick(iv.dr.n)],
                                  "algorithm-parameters-delayed-update")]
    /\ UNCHANGED <<sessionVars, pw, fe, md, fl, rr, la, pc, dl, dp, po>>

SelectFeatureAlgorithm(a) ==
    /\ a # iv.fx.value
    /\ iv' = [iv EXCEPT !.fx = update_feature_extraction_parameters(
                                  [iv.fx EXCEPT !.value = a], "feature-extraction-algorithm")]
    /\ UNCHANGED <<sessionVars, pw, fe, md, fl, rr, la, pc, dl, dp, po>>

TickFeatureAlgorithm ==
    /\ ~iv.fx.disabled
    /\ iv' = [iv EXCEPT !.fx = update_feature_extraction_parameters(
                                  [iv.fx EXCEPT !.n = Tick(iv.fx.n)],
                                  "feature-extraction-params-delayed-update")]
    /\ UNCHANGED <<sessionVars, pw, fe, md, fl, rr, la, pc, dl, dp, po>>

\* the user edits "metavars-separator"
TypeSeparator(sep) ==
    /\ sep # iv.mv.sep
    /\ iv' = [iv EXCEPT !.mv = update_metavars_params(
                                  [iv.mv EXCEPT !.sep = sep], "metavars-separator")]
    /\ UNCHANGED <<sessionVars, pw, fe, md, fl, rr, la, pc, dl, dp, po>>

\* display_feature_extraction_opts writes "example-file-label".children
SetExampleFile(file) ==
    /\ file # iv.mv.file
    /\ iv' = [iv EXCEPT !.mv = update_metavars_params(
                                  [iv.mv EXCEPT !.file = file], "example-file-label")]
    /\ UNCHANGED <<sessionVars, pw, fe, md, fl, rr, la, pc, dl, dp, po>>

TickMetavars ==
    /\ ~iv.mv.disabled
    /\ iv' = [iv EXCEPT !.mv = update_metavars_params(
                                  [iv.mv EXCEPT !.n = Tick(iv.mv.n)],
                                  "metavars-specification-delayed-update")]
    /\ UNCHANGED <<sessionVars, pw, fe, md, fl, rr, la, pc, dl, dp, po>>

IntervalNext ==
    \/ \E a \in Algorithms : SelectAlgorithm(a)
    \/ TickAlgorithm
    \/ \E a \in FeatureAlgorithms : SelectFeatureAlgorithm(a)
    \/ TickFeatureAlgorithm
    \/ \E sep \in MetaSeparators : TypeSeparator(sep)
    \/ \E file \in ExampleFiles : SetExampleFile(file)
    \/ TickMetavars

\* an enabled dcc.Interval fires every 50 ms
SpecIntervals ==
    /\ SessionInit /\ [][IntervalNext]_vars
    /\ WF_vars(TickAlgorithm) /\ WF_vars(TickFeatureAlgorithm) /\ WF_vars(TickMetavars)

\* C26 as stated: each of the three intervals, once enabled, is eventually
\* disabled again with its container showing the form of the current input:
\* the form of the selected algorithm, or the form of the current separator
\* and example file name.
C26_AsStated ==
    /\ ~iv.dr.disabled ~> (iv.dr.disabled /\ iv.dr.shown = iv.dr.value)
    /\ ~iv.fx.disabled ~> (iv.fx.disabled /\ iv.fx.shown = iv.fx.value)
    /\ ~iv.mv.disabled ~> (/\ iv.mv.disabled
                           /\ iv.mv.shown = MetavarsForm(iv.mv.file, iv.mv.sep))

-----------------------------------------------------------------------------
(* Visibility of the dimensionality-reduction options panel:                *)
(* display_dimreduction_opts (dimensionality_reduction_opts.py 410-424) and *)
(* the callbacks that write its inputs, "stored-table".data and             *)
(* "confirmed-selection-btn".n_clicks.                                      *)

MaxClicks == 2        \* clicks on "Confirm selection" that are followed

\* display_dimreduction_opts(data_table, n_clicks): the display style
display_dimreduction_optsMutNoTable(data_table, n_clicks) ==
    IF n_clicks < 1 THEN "none" ELSE "block"
display_dimreduction_opts(data_table, n_clicks) ==
    IF data_table = None \/ n_clicks < 1 THEN "none" ELSE "block"

\* promote_and_clear_temp_store on the pair its trigger selects: how it
\* ends.  new_meta.insert raises when new_meta is dash.no_update.
promote_outcome(data, meta) ==
    IF IsNone(data) /\ IsNone(meta) THEN Outcome("", "", "prevent", None, "")
    ELSE IF ~TruthyList(meta) THEN Outcome("", "", "error", None, "AttributeError")
    ELSE Outcome("", "", "update", None, "")

PanelIdle == dp.pending = {}

\* the values "stored-data-table".data and "meta-columns-checklist".value
\* can hold when the button is clicked
ConfirmStates ==
    {<<None, None>>}
    \cup {<<d, Some(v)>> : d \in {None} \cup {Some(t) : t \in UploadTables},
                           v \in AllChecklistValues}

\* a click on "Confirm selection": n_clicks grows by one, and both callbacks
\* that have it as an input are due
ConfirmClick(data_table, metainformation_table) ==
    /\ PanelIdle
    /\ dp.n_clicks < MaxClicks
    /\ dp' = [dp EXCEPT
                !.n_clicks = @ + 1,
                !.pending = {Invocation("promote_and_clear_temp_store",
                                        "confirmed-selection-btn",
                                        <<data_table, metainformation_table>>),
                             Invocation("display_dimreduction_opts",
                                        "confirmed-selection-btn", None)}]
    /\ UNCHANGED <<sessionVars, pw, fe, md, fl, rr, la, pc, dl, iv, po>>

\* a click on "Extract features": extract_features (audio_upload.py 139-182)
\* unpacks what parse_audio_contents returns into three names
PanelExtract(ret) ==
    /\ PanelIdle
    /\ IF Len(ret) # 3
       THEN dp' = [dp EXCEPT !.last = Outcome("extract_features", "extract-features-btn",
                                              "error", None, "ValueError")]
       ELSE dp' = [dp EXCEPT
                     !.stored_data_audio = ret[1],
                     !.stored_metainformation_audio = ret[2],
                     !.pending = {Invocation("promote_and_clear_temp_store",
                                             "stored-data-audio", None)},
                     !.last = Outcome("extract_features", "extract-features-btn",
                                      "update", None, "")]
    /\ UNCHANGED <<sessionVars, pw, fe, md, fl, rr, la, pc, dl, iv, po>>

\* promote_and_clear_temp_store (visualiser.py 176-215) runs
PanelPromote(inv) ==
    /\ inv \in dp.pending /\ inv.cb = "promote_and_clear_temp_store"
    /\ LET data == IF inv.trig = "confirmed-selection-btn" THEN inv.arg[1]
                   ELSE dp.stored_data_audio
           meta == IF inv.trig = "confirmed-selection-btn" THEN inv.arg[2]
                   ELSE dp.stored_metainformation_audio
           out == promote_outcome(data, meta)
           rest == dp.pending \ {inv}
       IN IF out.outcome # "update"
          THEN dp' = [dp EXCEPT !.pending = rest,
                                !.last = Outcome(inv.cb, inv.trig, out.outcome,
                                                 None, out.stage)]
          ELSE dp' = [dp EXCEPT
                        !.stored_table = IF TruthyTable(data) THEN data ELSE @,
                        !.stored_data_audio = None,
                        !.stored_metainformation_audio = None,
                        \* "stored-table" is an input of display_dimreduction_opts,
                        \* "stored-data-audio" of this callback
                        !.pending = rest
                            \cup {Invocation("display_dimreduction_opts",
                                             "stored-table", None),
                                  Invocation("promote_and_clear_temp_store",
                                             "stored-data-audio", None)},
                        !.last = Outcome(inv.cb, inv.trig, "update", None, "")]
    /\ UNCHANGED <<sessionVars, pw, fe, md, fl, rr, la, pc, dl, iv, po>>

\* display_dimreduction_opts runs on the current values of its inputs
PanelDisplay(inv) ==
    /\ inv \in dp.pending /\ inv.cb = "display_dimreduction_opts"
    /\ dp' = [dp EXCEPT
                !.style = display_dimreduction_opts(dp.stored_table, dp.n_clicks),
                !.pending = @ \ {inv},
                !.last = Outcome(inv.cb, inv.trig, "update", None, "")]
    /\ UNCHANGED <<sessionVars, pw, fe, md, fl, rr, la, pc, dl, iv, po>>

\* a click on an upload-mode button: upload_choice (visualiser.py 118-153)
PanelUploadChoice(btn) ==
    /\ PanelIdle
    /\ IF "upload_table_component" \notin TableUploadModule
       THEN dp' = [dp EXCEPT !.last = Outcome("upload_choice", btn, "error", None,
                                              "AttributeError")]
       ELSE dp' = [dp EXCEPT
                     !.stored_table = None,
                     !.pending = {Invocation("display_dimreduction_opts",
                                             "stored-table", None)},
                     !.last = Outcome("upload_choice", btn, "update", None, "")]
    /\ UNCHANGED <<sessionVars, pw, fe, md, fl, rr, la, pc, dl, iv, po>>

PanelNext ==
    \/ \E s \in ConfirmStates : ConfirmClick(s[1], s[2])
    \/ \E ret \in ParseAudioReturns : PanelExtract(ret)
    \/ \E inv \in dp.pending : PanelPromote(inv)
    \/ \E inv \in dp.pending : PanelDisplay(inv)
    \/ \E btn \in {"upload-table-btn", "upload-audio-btn"} : PanelUploadChoice(btn)

SpecPanel == SessionInit /\ [][PanelNext]_vars

-----------------------------------------------------------------------------
(* _process_opts, as pages/layouts/visualiser/audio_upload/audio_upload.py  *)
(* (68-104) and pages/layouts/visualiser/feature_extraction_opts.py (35-69) *)
(* define it, one loop turn at a step.                                      *)

MaxOpts == 2          \* components of a feat-extr-param or metavars-param form

ProcessOptsModules == {"audio_upload", "feature_extraction_opts"}

\* f"{idx}" of _populate_metavars_form and int() of it
Digits == <<"0", "1", "2", "3", "4", "5", "6", "7", "8", "9">>
fstr(idx) == Digits[idx + 1]
int(s) == CHOOSE n \in 0..(Len(Digits) - 1) : Digits[n + 1] = s

\* the ids of the first feat-extr-param components of a form, in page order
FeatureOptIds == {<<>>, <<"n_mfccs">>, <<"n_mfccs", "n_mels">>}
FeatureOptValues == {4, 13}
\* the ids of the metavars-param components of a form of n tokens
MetavarOptIds(n) == [i \in 1..n |-> fstr(i - 1)]
\* what a text input holds: None while untouched, "" when emptied, or a name
MetavarOptValues == {None, Some(""), Some("speaker")}

\* parsed_features_opts[method] is kept as the function from its keys
ProcessOptsCall(module, feature_opts, feature_opts_values, metavar_opts, metavar_opts_values) ==
    /\ po = None
    /\ po' = Some([module |-> module,
                   feature_opts |-> feature_opts,
                   feature_opts_values |-> feature_opts_values,
                   metavar_opts |-> metavar_opts,
                   metavar_opts_values |-> metavar_opts_values,
                   pc |-> "features", i |-> 0, err |-> "",
                   parsed |-> <<>>,
                   variables |-> [k \in 1..Len(metavar_opts) |-> None]])
    /\ UNCHANGED <<sessionVars, pw, fe, md, fl, rr, la, pc, dl, iv, dp>>

\* one turn of "while i < len(feature_opts)"; feature_extraction_opts.py has
\* no "i += 1" in the body (52-57): a further turn leaves every name as it is.
FeatureTurn ==
    /\ po # None /\ Val(po).pc = "features"
    /\ Val(po).i < Len(Val(po).feature_opts)
    /\ LET o == Val(po)
           param_name == o.feature_opts[o.i + 1]
       IN po' = Some([o EXCEPT
                  !.parsed = (param_name :> o.feature_opts_values[o.i + 1]) @@ @,
                  !.i = IF o.module = "audio_upload" THEN @ + 1 ELSE @])
    /\ UNCHANGED <<sessionVars, pw, fe, md, fl, rr, la, pc, dl, iv, dp>>

FeatureExit ==
    /\ po # None /\ Val(po).pc = "features"
    /\ Val(po).i >= Len(Val(po).feature_opts)
    /\ po' = Some([Val(po) EXCEPT !.pc = "metavars", !.i = 0])
    /\ UNCHANGED <<sessionVars, pw, fe, md, fl, rr, la, pc, dl, iv, dp>>

\* one turn of "while i < len(metavar_opts)".  audio_upload.py: idx_var is
\* int(id), an empty or missing name becomes "-".  feature_extraction_opts.py:
\* idx_var is the id string, 'varname == "-"' is a comparison, and a list
\* indexed with a string raises TypeError.
MetavarTurn ==
    /\ po # None /\ Val(po).pc = "metavars"
    /\ Val(po).i < Len(Val(po).metavar_opts)
    /\ LET o == Val(po)
           typed == o.metavar_opts_values[o.i + 1]
       IN IF o.module = "audio_upload"
          THEN LET idx_var == int(o.metavar_opts[o.i + 1])
                   varname == IF typed = Some("") \/ typed = None THEN Some("-")
                              ELSE typed
               IN IF idx_var >= Len(o.variables)
                  THEN po' = Some([o EXCEPT !.pc = "raised", !.err = "IndexError"])
                  ELSE po' = Some([o EXCEPT !.variables[idx_var + 1] = varname,
                                            !.i = @ + 1])
          ELSE po' = Some([o EXCEPT !.pc = "raised", !.err = "TypeError"])
    /\ UNCHANGED <<sessionVars, pw, fe, md, fl, rr, la, pc, dl, iv, dp>>

MetavarExit ==
    /\ po # None /\ Val(po).pc = "metavars"
    /\ Val(po).i >= Len(Val(po).metavar_opts)
    /\ po' = Some([Val(po) EXCEPT !.pc = "done"])
    /\ UNCHANGED <<sessionVars, pw, fe, md, fl, rr, la, pc, dl, iv, dp>>

\* the caller has the result, or the exception
ProcessOptsLeft ==
    /\ po # None /\ Val(po).pc \in {"done", "raised"}
    /\ po' = None
    /\ UNCHANGED <<sessionVars, pw, fe, md, fl, rr, la, pc, dl, iv, dp>>

OptsNext ==
    \/ \E module \in ProcessOptsModules : \E fo \in FeatureOptIds :
         \E fv \in [1..Len(fo) -> FeatureOptValues] :
           \E n \in 0..MaxOpts : \E mv \in [1..n -> MetavarOptValues] :
              ProcessOptsCall(module, fo, fv, MetavarOptIds(n), mv)
    \/ FeatureTurn
    \/ FeatureExit
    \/ MetavarTurn
    \/ MetavarExit
    \/ ProcessOptsLeft

\* a started call keeps executing
SpecOpts ==
    /\ SessionInit /\ [][OptsNext]_vars
    /\ WF_vars(FeatureTurn) /\ WF_vars(FeatureExit)
    /\ WF_vars(MetavarTurn) /\ WF_vars(MetavarExit)

\* what a call is to return for its arguments
ProcessOptsReturned(o) ==
    /\ o.pc = "done"
    /\ DOMAIN o.parsed = Range(o.feature_opts)
    /\ \A k \in DOMAIN o.feature_opts :
          o.parsed[o.feature_opts[k]] = o.feature_opts_values[k]
    /\ Len(o.variables) = Len(o.metavar_opts)
    /\ \A k \in DOMAIN o.metavar_opts :
          o.variables[k] = IF o.metavar_opts_values[k] \in {None, Some("")}
                           THEN Some("-") ELSE o.metavar_opts_values[k]

\* C30 as stated: every call of _process_opts, of either module, comes to
\* its return, with one parsed feature entry per option and with the name
\* typed for token idx at position idx of the variables list, "-" for an
\* empty or missing name.
C30_AsStated ==
    (po # None) ~> (po # None /\ ProcessOptsReturned(Val(po)))


====
